---------------------------- MODULE Spec2Model ----------------------------
(***************************************************************************)
(* Model of the market-research pipeline of Bebe1909/mktresearch:          *)
(*   - ExcelToStructuredJSON.convert_excel_to_json  (SpecTree)             *)
(*   - OpenAIMarketResearch.call_openai_api         (SpecApi)              *)
(*   - OpenAIMarketResearch.run_layer3_research     (SpecRun)              *)
(* Python objects are references, so the question tree is modelled as a    *)
(* heap of nodes addressed by identity; layer_stack holds identities.      *)
(***************************************************************************)
EXTENDS Integers, Sequences, FiniteSets, TLC

\* ------------------------------------------------------------------ bounds
MaxRows == 2        \* data rows below the header row
MaxCols == 5        \* cells of the header row that match "Layer"
MaxTotalQ == 2      \* main questions of the tree handed to the run
MaxTestCats == 6    \* categories of the tree handed to a testing-mode run
MaxTally == 11      \* sources in the tally handed to get_top_references

\* ------------------------------------------------------- program constants
MinLayerCols == 3        \* excel_to_structured_json.py:82
DefaultMaxRetries == 3   \* openai_market_research.py:41
BackoffBase == 5         \* openai_market_research.py:70
MinSourceLen == 3        \* openai_market_research.py:120
DelaySeconds == 3        \* openai_market_research.py:31
TestLimitPlusOne == 5 + 1
TestLimit == 5           \* openai_market_research.py:795
TopLimit == 10           \* openai_market_research.py:910
Infinity == 1000000      \* openai_market_research.py:800 (float('inf'))

VARIABLES
    conv_pc,        \* position inside convert_excel_to_json
    grid_shape,     \* what the sheet looks like above the data rows
    grid,           \* the data rows of the sheet, when they are given
    layer_columns,  \* len(layer_columns)
    heap,           \* the dict objects created so far, by identity
    result_layers,  \* result["layers"]: identities of the theme dicts
    layer_stack,    \* layer_stack: identity of the current node per level
    row_idx,        \* data rows consumed so far
    json_file,      \* content of json_path
    conv_ret,       \* return value of convert_excel_to_json
    api_pc,         \* position inside call_openai_api
    max_retries,    \* the max_retries argument
    transport,      \* what the transport answers, attempt by attempt
    attempt,        \* loop variable of call_openai_api
    transport_calls,    \* client.chat.completions.create calls made
    waits,          \* the time.sleep(wait_time) calls made, in order
    api_ret,        \* return value of call_openai_api
    reference_tracker,  \* self.reference_tracker, in insertion order
    run_pc,             \* position inside run_layer3_research
    structured_data,    \* structured_data["layers"]
    testing_mode,       \* the testing_mode argument
    analysis_level,     \* the analysis_level argument
    li, ci, qi,         \* positions of the three nested for loops
    questions,          \* the (possibly cut) question list being walked
    research_results,   \* result['research_results']
    layer_result,       \* the layer_result under construction
    category_result,    \* the category_result under construction
    question_result,    \* the question_result under construction
    counters,           \* the integer locals of the run
    events,             \* model calls and sleeps so far, in order
    run_ret,            \* the dict returned by run_layer3_research
    store_pc,           \* position inside add_layer4_*_enhancement
    store_op,           \* which of the two is called, and its arguments
    results_file,       \* content of results_file
    file_before,        \* content of results_file when the call was made
    store_content,      \* the text the enhance step handed back
    store_calls,        \* the model calls the enhance step made
    store_writes,       \* writes to results_file so far
    store_ret,          \* return value of add_layer4_*_enhancement
    flow_pc,            \* position inside run_complete_research_workflow
    flow_todo           \* questions of the result its loop has yet to visit

conv_vars == <<conv_pc, grid_shape, grid, layer_columns, heap, result_layers,
               layer_stack, row_idx, json_file, conv_ret>>

api_vars == <<api_pc, max_retries, transport, attempt, transport_calls,
              waits, api_ret, reference_tracker>>

run_vars == <<run_pc, structured_data, testing_mode, analysis_level,
              li, ci, qi, questions, research_results, layer_result,
              category_result, question_result, counters, events, run_ret>>

store_vars == <<store_pc, store_op, results_file, file_before,
                store_content, store_calls, store_writes, store_ret,
                flow_pc, flow_todo>>

vars == <<conv_vars, api_vars, run_vars, store_vars>>

\* ---------------------------------------------------------------- values
None == 0                \* a None pointer (node identities start at 1)
NoValue == "<None>"      \* layer_values entry None
NaN == "<NaN>"           \* an empty spreadsheet cell as pandas reads it
\* json_path does not exist
Absent == [exists |-> FALSE, layers |-> <<>>]
NoReturn == "<running>"

Max(S) == CHOOSE x \in S : \A y \in S : y <= x

\* One raw cell of a data row, per layer column (0-based level).
RawCells(level) ==
    CASE level = 0 -> {NaN, "Auto", "Food"}
      [] level = 1 -> {NaN, "Market", "Price"}
      [] level = 2 -> {NaN, "Why buy EVs?"}
      [] OTHER     -> {NaN, "Price; Range"}

RECURSIVE RawRows(_)
RawRows(n) ==
    IF n = 0 THEN {<<>>}
    ELSE {Append(r, c) : r \in RawRows(n - 1), c \in RawCells(n - 1)}

\* str(val) if pd.notna(val) and str(val) != 'None' and str(val).strip()
\* else None
CellValue(raw) ==
    IF raw = NaN \/ raw = "None" \/ raw \in {"", " "} THEN NoValue ELSE raw

LayerValues(raw_row) == [i \in 1..Len(raw_row) |-> CellValue(raw_row[i])]

\* deepest_level: the last level holding a value, -1 when there is none
DeepestLevel(layer_values) ==
    Max({-1} \cup {i - 1 : i \in {j \in 1..Len(layer_values) :
                                     layer_values[j] # NoValue}})

\* ------------------------------------------------------------ tree build
\* st = [heap, layers, stack]; a node is [kind, name, children, row] where
\* children are identities (theme, category) or sub-question entries
\* (question); row and the entries' row/level tags record provenance only.
NewNode(kind, value, row) ==
    [kind |-> kind, name |-> value, children |-> <<>>, row |-> row]

\* for x in seq: if x["name"] == value: found = x; break
FindByName(h, ids, value) ==
    LET hits == {i \in 1..Len(ids) : h[ids[i]].name = value}
    IN  IF hits = {} THEN None
        ELSE ids[CHOOSE i \in hits : \A j \in hits : i <= j]

Level0NoDedupe(st, value, row) ==
    LET id == Len(st.heap) + 1
    IN  [heap   |-> Append(st.heap, NewNode("theme", value, row)),
         layers |-> Append(st.layers, id),
         stack  |-> [st.stack EXCEPT ![1] = id]]

\* level == 0: reuse the theme of that name or append a new one
Level0(st, value, row) ==
    LET existing_layer == FindByName(st.heap, st.layers, value)
        id == Len(st.heap) + 1
    IN  IF existing_layer = None
        THEN [heap   |-> Append(st.heap, NewNode("theme", value, row)),
              layers |-> Append(st.layers, id),
              stack  |-> [st.stack EXCEPT ![1] = id]]
        ELSE [st EXCEPT !.stack[1] = existing_layer]

Level1Shared(st, value, row) ==
    IF st.stack[1] = None THEN st
    ELSE
    LET all == {i \in 1..Len(st.heap) :
                  st.heap[i].kind = "category" /\ st.heap[i].name = value}
        id == Len(st.heap) + 1
    IN  IF all = {}
        THEN [st EXCEPT
                !.heap = Append([st.heap EXCEPT
                            ![st.stack[1]].children = Append(@, id)],
                            NewNode("category", value, row)),
                !.stack[2] = id]
        ELSE LET c == CHOOSE i \in all : \A j \in all : i <= j
             IN  [st EXCEPT
                    !.heap[st.stack[1]].children =
                        IF \E k \in 1..Len(@) : @[k] = c THEN @
                        ELSE Append(@, c),
                    !.stack[2] = c]

\* level == 1 and layer_stack[0]: reuse the category of that name under the
\* current theme or append a new one to it
Level1(st, value, row) ==
    IF st.stack[1] = None THEN st
    ELSE
    LET existing_category ==
            FindByName(st.heap, st.heap[st.stack[1]].children, value)
        id == Len(st.heap) + 1
    IN  IF existing_category = None
        THEN [st EXCEPT
                !.heap = Append([st.heap EXCEPT
                            ![st.stack[1]].children = Append(@, id)],
                            NewNode("category", value, row)),
                !.stack[2] = id]
        ELSE [st EXCEPT !.stack[2] = existing_category]

Level2Detached(st, value, row) ==
    IF st.stack[2] = None THEN st
    ELSE [st EXCEPT !.heap = Append(st.heap, NewNode("question", value, row)),
                    !.stack[3] = Len(st.heap) + 1]

\* level == 2 and layer_stack[1]: always a new question under the current
\* category
Level2(st, value, row) ==
    IF st.stack[2] = None THEN st
    ELSE
    LET id == Len(st.heap) + 1
    IN  [st EXCEPT
            !.heap = Append([st.heap EXCEPT
                        ![st.stack[2]].children = Append(@, id)],
                        NewNode("question", value, row)),
            !.stack[3] = id]

Level3PlusDropped(st, level, value, row) == st

Level3PlusInFront(st, level, value, row) ==
    IF st.stack[3] = None THEN st
    ELSE [st EXCEPT !.heap[st.stack[3]].children =
            <<[text |-> value, row |-> row, level |-> level]>> \o @]

\* level >= 3 and layer_stack[2]: append the value to the current question
Level3Plus(st, level, value, row) ==
    IF st.stack[3] = None THEN st
    ELSE [st EXCEPT !.heap[st.stack[3]].children =
            Append(@, [text |-> value, row |-> row, level |-> level])]

\* body of "for level in range(deepest_level + 1)"
ApplyLevel(st, level, value, row) ==
    IF value = NoValue THEN st
    ELSE CASE level = 0 -> Level0(st, value, row)
           [] level = 1 -> Level1(st, value, row)
           [] level = 2 -> Level2(st, value, row)
           [] OTHER     -> Level3Plus(st, level, value, row)

RECURSIVE UpdateLevels(_, _, _, _, _)
UpdateLevels(st, layer_values, level, deepest_level, row) ==
    IF level > deepest_level THEN st
    ELSE UpdateLevels(ApplyLevel(st, level, layer_values[level + 1], row),
                      layer_values, level + 1, deepest_level, row)

ClearDeeperAll(stack, deepest_level) == [i \in 1..Len(stack) |-> None]

\* for level in range(deepest_level + 1, len(layer_stack)):
\*     layer_stack[level] = None
ClearDeeper(stack, deepest_level) ==
    [i \in 1..Len(stack) |-> IF i - 1 > deepest_level THEN None ELSE stack[i]]

\* one iteration of the data-row loop
ApplyRow(st, layer_values, row) ==
    LET deepest_level == DeepestLevel(layer_values)
    IN  IF deepest_level >= 0
        THEN LET u == UpdateLevels(st, layer_values, 0, deepest_level, row)
             IN  [u EXCEPT !.stack = ClearDeeper(u.stack, deepest_level)]
        ELSE st

\* json.dump(result): the nested document the heap stands for
QuestionDoc(h, q) ==
    [main_question |-> h[q].name,
     sub_questions |-> [i \in 1..Len(h[q].children) |-> h[q].children[i].text]]

CategoryDoc(h, c) ==
    [name |-> h[c].name,
     questions |-> [i \in 1..Len(h[c].children) |->
                        QuestionDoc(h, h[c].children[i])]]

LayerDoc(h, t) ==
    [name |-> h[t].name,
     categories |-> [i \in 1..Len(h[t].children) |->
                        CategoryDoc(h, h[t].children[i])]]

ToJSON(h, layers) == [i \in 1..Len(layers) |-> LayerDoc(h, layers[i])]

\* --------------------------------------------- convert_excel_to_json steps
\* the data rows are either left open (any row may come next, up to MaxRows)
\* or given as a sequence of raw rows
AnyRows == [known |-> FALSE, rows |-> <<>>]
GivenRows(rows) == [known |-> TRUE, rows |-> rows]

\* len(df) - (layer_header_row + 1)
RowCount == IF grid.known THEN Len(grid.rows) ELSE MaxRows

\* df.iloc[idx]
NextRows == IF grid.known THEN {grid.rows[row_idx + 1]}
            ELSE RawRows(layer_columns)

GridShapes == {"unreadable", "no_purpose", "no_header", "header"}

ConvInit ==
    /\ conv_pc = "start"
    /\ grid_shape \in GridShapes
    /\ grid = AnyRows
    /\ layer_columns \in 1..MaxCols
    /\ (grid_shape # "header" => layer_columns = 1)
    /\ heap = <<>>
    /\ result_layers = <<>>
    /\ layer_stack = <<>>
    /\ row_idx = 0
    /\ json_file = Absent
    /\ conv_ret = NoReturn

\* pd.read_excel raises (missing file or sheet): except -> return False
ReadFails ==
    /\ conv_pc = "start" /\ grid_shape = "unreadable"
    /\ conv_pc' = "done" /\ conv_ret' = "False"
    /\ UNCHANGED <<grid, grid_shape, layer_columns, heap, result_layers,
                   layer_stack, row_idx, json_file>>
    /\ UNCHANGED <<api_vars, run_vars, store_vars>>

\* no purpose row, or no "Layer" row after it: the row loop is not entered
NoLayers ==
    /\ conv_pc = "start" /\ grid_shape \in {"no_purpose", "no_header"}
    /\ conv_pc' = "write"
    /\ UNCHANGED <<grid, grid_shape, layer_columns, heap, result_layers,
                   layer_stack, row_idx, json_file, conv_ret>>
    /\ UNCHANGED <<api_vars, run_vars, store_vars>>

EnoughLayersOffByOne(n) == n >= MinLayerCols - 1

\* not (len(layer_columns) < 3)
EnoughLayers(n) == ~(n < MinLayerCols)

\* if len(layer_columns) < 3: return False
TooFewLayers ==
    /\ conv_pc = "start" /\ grid_shape = "header"
    /\ ~EnoughLayers(layer_columns)
    /\ conv_pc' = "done" /\ conv_ret' = "False"
    /\ UNCHANGED <<grid, grid_shape, layer_columns, heap, result_layers,
                   layer_stack, row_idx, json_file>>
    /\ UNCHANGED <<api_vars, run_vars, store_vars>>

\* layer_stack = [None] * len(layer_columns)
StartRows ==
    /\ conv_pc = "start" /\ grid_shape = "header"
    /\ EnoughLayers(layer_columns)
    /\ layer_stack' = [i \in 1..layer_columns |-> None]
    /\ conv_pc' = "rows"
    /\ UNCHANGED <<grid, grid_shape, layer_columns, heap, result_layers,
                   row_idx, json_file, conv_ret>>
    /\ UNCHANGED <<api_vars, run_vars, store_vars>>

\* one data row
ProcessRow ==
    /\ conv_pc = "rows" /\ row_idx < RowCount
    /\ \E raw_row \in NextRows :
         LET st == ApplyRow([heap |-> heap, layers |-> result_layers,
                             stack |-> layer_stack],
                            LayerValues(raw_row), row_idx + 1)
         IN  /\ heap' = st.heap
             /\ result_layers' = st.layers
             /\ layer_stack' = st.stack
    /\ row_idx' = row_idx + 1
    /\ UNCHANGED <<conv_pc, grid, grid_shape, layer_columns, json_file,
                   conv_ret>>
    /\ UNCHANGED <<api_vars, run_vars, store_vars>>

\* end of the sheet: json.dump(result) to json_path, return True
WriteJSON ==
    /\ conv_pc \in {"rows", "write"}
    /\ grid.known => row_idx = RowCount
    /\ json_file' = [exists |-> TRUE,
                     layers |-> ToJSON(heap, result_layers)]
    /\ conv_pc' = "done" /\ conv_ret' = "True"
    /\ UNCHANGED <<grid, grid_shape, layer_columns, heap, result_layers,
                   layer_stack, row_idx>>
    /\ UNCHANGED <<api_vars, run_vars, store_vars>>

\* os.makedirs / open raises: except -> return False
WriteFails ==
    /\ conv_pc \in {"rows", "write"}
    /\ grid.known => row_idx = RowCount
    /\ conv_pc' = "done" /\ conv_ret' = "False"
    /\ UNCHANGED <<grid, grid_shape, layer_columns, heap, result_layers,
                   layer_stack, row_idx, json_file>>
    /\ UNCHANGED <<api_vars, run_vars, store_vars>>

ConvNext ==
    \/ ReadFails
    \/ NoLayers
    \/ TooFewLayers
    \/ StartRows
    \/ ProcessRow
    \/ WriteJSON
    \/ WriteFails

\* a sheet whose data rows are given: the header row names four layers and
\* each cell is blank or one of the labels of the level
SheetHeader == <<"Layer 1", "Layer 2", "Layer 3", "Layer 4">>

SheetCells(level) ==
    CASE level = 0 -> {"", "Auto"}
      [] level = 1 -> {"", "Market"}
      [] level = 2 -> {"", "Why buy EVs?", "Why buy EVs? (2)"}
      [] OTHER     -> {"", "Price; Range"}

SheetRows == {<<a, b, c, d>> : a \in SheetCells(0), b \in SheetCells(1),
                               c \in SheetCells(2), d \in SheetCells(3)}

RECURSIVE Sheets(_)
Sheets(n) ==
    IF n = 0 THEN {<<>>}
    ELSE Sheets(n - 1) \cup
         {Append(g, r) : g \in {h \in Sheets(n - 1) : Len(h) = n - 1},
                         r \in SheetRows}

SheetStart ==
    /\ conv_pc = "start"
    /\ grid_shape = "header"
    /\ grid \in {GivenRows(rows) : rows \in Sheets(MaxRows)}
    /\ layer_columns = Len(SheetHeader)
    /\ heap = <<>>
    /\ result_layers = <<>>
    /\ layer_stack = <<>>
    /\ row_idx = 0
    /\ json_file = Absent
    /\ conv_ret = NoReturn

\* a sheet of five layer columns whose data rows are given, with two theme
\* labels, one label on each deeper level, and blanks
WideHeader == <<"Layer 1", "Layer 2", "Layer 3", "Layer 4", "Layer 5">>

WideCells(level) ==
    CASE level = 0 -> {"", "Auto", "Food"}
      [] level = 1 -> {"", "Market"}
      [] level = 2 -> {"", "Why buy EVs?"}
      [] level = 3 -> {"", "Price"}
      [] OTHER     -> {"", "Range"}

WideRows == {<<a, b, c, d, e>> : a \in WideCells(0), b \in WideCells(1),
                                  c \in WideCells(2), d \in WideCells(3),
                                  e \in WideCells(4)}

RECURSIVE WideSheets(_)
WideSheets(n) ==
    IF n = 0 THEN {<<>>}
    ELSE WideSheets(n - 1) \cup
         {Append(g, r) : g \in {h \in WideSheets(n - 1) : Len(h) = n - 1},
                         r \in WideRows}

WideStart ==
    /\ conv_pc = "start"
    /\ grid_shape = "header"
    /\ grid \in {GivenRows(rows) : rows \in WideSheets(MaxRows)}
    /\ layer_columns = Len(WideHeader)
    /\ heap = <<>>
    /\ result_layers = <<>>
    /\ layer_stack = <<>>
    /\ row_idx = 0
    /\ json_file = Absent
    /\ conv_ret = NoReturn

SheetNext ==
    \/ StartRows
    \/ ProcessRow
    \/ WriteJSON
    \/ WriteFails

ConvIdle ==
    /\ conv_pc = "idle" /\ grid_shape = "header" /\ grid = AnyRows
    /\ layer_columns = MinLayerCols
    /\ heap = <<>> /\ result_layers = <<>> /\ layer_stack = <<>>
    /\ row_idx = 0 /\ json_file = Absent /\ conv_ret = NoReturn

\* ------------------------------------------------------- call_openai_api
\* A Python string is a sequence of words; <<>> is the empty string.
NoneContent == <<"<None>">>     \* the value None where a string is expected
Running == <<"<running>">>      \* no return yet

NoError == [text |-> "", has_429 |-> FALSE, has_rate_limit |-> FALSE]

\* exceptions the transport raises: str(e), whether "429" is in it and
\* whether "rate_limit" is in its lower-cased form
Errors ==
    {[text |-> "Error code: 429", has_429 |-> TRUE, has_rate_limit |-> FALSE],
     [text |-> "Rate_Limit reached", has_429 |-> FALSE, has_rate_limit |-> TRUE],
     [text |-> "Connection error", has_429 |-> FALSE, has_rate_limit |-> FALSE]}

\* re.finditer(pattern, None)
TypeErrorNone ==
    [text |-> "expected string or bytes-like object",
     has_429 |-> FALSE, has_rate_limit |-> FALSE]

\* message contents the model answers with
\* ("Tong cuc Thong ke" stands for the Vietnamese name of the office, written
\* with its diacritics in the source)
OkContents ==
    {<<>>, <<"text">>, <<"World Bank", "text", "GSO">>,
     <<"Tong cuc Thong ke", "GSO">>}

\* one answer of client.chat.completions.create
Outcomes ==
    {[kind |-> "ok", content |-> c, error |-> NoError] : c \in OkContents}
    \cup {[kind |-> "null_content", content |-> NoneContent, error |-> NoError],
          [kind |-> "no_choices", content |-> NoneContent, error |-> NoError]}
    \cup {[kind |-> "error", content |-> NoneContent, error |-> e] : e \in Errors}

\* "429" in str(e) or "rate_limit" in str(e).lower()
IsRateLimit(e) == e.has_429 \/ e.has_rate_limit

EmptyResponseMsg == <<"Khong co noi dung trong phan hoi API">>
ApiErrorMsg(e) == <<"API Error:", e.text>>
RateLimitMsg(n, e) ==
    <<"Rate limit error after", ToString(n), "retries:", e.text>>
FailedMsg == <<"Failed after all retries">>

\* reference_patterns, as the set of words each pattern matches
\* (re.IGNORECASE); only the patterns the modelled contents can hit
ReferencePatterns ==
    << {"Tong cuc Thong ke", "General Statistics Office", "GSO"},
       {"World Bank", "world bank"} >>

\* len(source)
SourceLen(source) ==
    CASE source = "GSO" -> 3
      [] source = "Tong cuc Thong ke" -> 17
      [] source = "World Bank" -> 10
      [] source = "world bank" -> 10
      [] source = "General Statistics Office" -> 25
      [] OTHER -> 4

\* mappings.get(source, source)
NormalizeSourceName(source) ==
    CASE source = "Tong cuc Thong ke" -> "General Statistics Office (GSO)"
      [] source = "General Statistics Office" -> "General Statistics Office (GSO)"
      [] source = "GSO" -> "General Statistics Office (GSO)"
      [] source = "World Bank" -> "World Bank"
      [] OTHER -> source

\* reference_tracker[normalized_source] += 1, or = 1 for a new key
Bump(tracker, key) ==
    IF \E i \in 1..Len(tracker) : tracker[i].source = key
    THEN [i \in 1..Len(tracker) |->
            IF tracker[i].source = key
            THEN [tracker[i] EXCEPT !.count = @ + 1] ELSE tracker[i]]
    ELSE Append(tracker, [source |-> key, count |-> 1])

\* for match in re.finditer(pattern, content): from word i on
RECURSIVE TrackPattern(_, _, _, _)
TrackPattern(tracker, content, pattern, i) ==
    IF i > Len(content) THEN tracker
    ELSE TrackPattern(
            IF content[i] \in pattern /\ SourceLen(content[i]) > MinSourceLen
            THEN Bump(tracker, NormalizeSourceName(content[i]))
            ELSE tracker,
            content, pattern, i + 1)

\* for pattern in reference_patterns: from pattern p on
RECURSIVE TrackFrom(_, _, _)
TrackFrom(tracker, content, p) ==
    IF p > Len(ReferencePatterns) THEN tracker
    ELSE TrackFrom(TrackPattern(tracker, content, ReferencePatterns[p], 1),
                   content, p + 1)

track_references_from_response(tracker, content) ==
    TrackFrom(tracker, content, 1)

Step(status, value, slept, wait, tracker) ==
    [status |-> status, value |-> value, slept |-> slept, wait |-> wait,
     tracker |-> tracker]

HandleExceptionReraise(e, att, retries, tracker) ==
    IF IsRateLimit(e)
    THEN IF att = retries - 1
         THEN Step("raise", NoneContent, TRUE, (2 ^ att) * BackoffBase, tracker)
         ELSE Step("continue", NoneContent, TRUE, (2 ^ att) * BackoffBase,
                   tracker)
    ELSE Step("return", ApiErrorMsg(e), FALSE, 0, tracker)

HandleExceptionRetryAll(e, att, retries, tracker) ==
    IF att = retries - 1
    THEN Step("return", ApiErrorMsg(e), FALSE, 0, tracker)
    ELSE Step("continue", NoneContent, TRUE, (2 ^ att) * BackoffBase, tracker)

HandleExceptionFlatWait(e, att, retries, tracker) ==
    IF IsRateLimit(e)
    THEN IF att = retries - 1
         THEN Step("return", RateLimitMsg(retries, e), TRUE, BackoffBase,
                   tracker)
         ELSE Step("continue", NoneContent, TRUE, BackoffBase, tracker)
    ELSE Step("return", ApiErrorMsg(e), FALSE, 0, tracker)

\* except Exception as e: back off and go on for a rate-limit error (return
\* the error text after the last attempt), return the error text otherwise
HandleException(e, att, retries, tracker) ==
    IF IsRateLimit(e)
    THEN IF att = retries - 1
         THEN Step("return", RateLimitMsg(retries, e), TRUE,
                   (2 ^ att) * BackoffBase, tracker)
         ELSE Step("continue", NoneContent, TRUE, (2 ^ att) * BackoffBase,
                   tracker)
    ELSE Step("return", ApiErrorMsg(e), FALSE, 0, tracker)

\* body of "for attempt in range(max_retries)" for one transport answer
AttemptStep(outcome, att, retries, tracker) ==
    CASE outcome.kind = "ok" ->
            Step("return", outcome.content, FALSE, 0,
                 track_references_from_response(tracker, outcome.content))
      [] outcome.kind = "null_content" ->
            HandleException(TypeErrorNone, att, retries, tracker)
      [] outcome.kind = "no_choices" ->
            Step("return", EmptyResponseMsg, FALSE, 0, tracker)
      [] OTHER ->
            HandleException(outcome.error, att, retries, tracker)

\* the whole call on a scripted transport: [value, waits, calls, tracker]
RECURSIVE CallFrom(_, _, _, _, _)
CallFrom(script, att, retries, tracker, slept) ==
    IF att >= retries \/ att >= Len(script)
    THEN [value |-> FailedMsg, waits |-> slept, calls |-> att,
          tracker |-> tracker, raised |-> FALSE]
    ELSE LET r == AttemptStep(script[att + 1], att, retries, tracker)
             w == IF r.slept THEN Append(slept, r.wait) ELSE slept
         IN  IF r.status = "continue"
             THEN CallFrom(script, att + 1, retries, r.tracker, w)
             ELSE [value |-> r.value, waits |-> w, calls |-> att + 1,
                   tracker |-> r.tracker, raised |-> r.status = "raise"]

call_openai_api(script, tracker) ==
    CallFrom(script, 0, DefaultMaxRetries, tracker, <<>>)

\* transports for one call: an answer for every attempt it could make
Scripts == [1..(DefaultMaxRetries + 1) -> Outcomes]

ApiIdle ==
    /\ api_pc = "idle" /\ max_retries = DefaultMaxRetries
    /\ transport = <<>> /\ attempt = 0 /\ transport_calls = 0
    /\ waits = <<>> /\ api_ret = Running /\ reference_tracker = <<>>

ApiInit ==
    /\ api_pc = "loop"
    /\ max_retries \in 0..DefaultMaxRetries
    /\ transport \in Scripts
    /\ attempt = 0 /\ transport_calls = 0 /\ waits = <<>>
    /\ api_ret = Running /\ reference_tracker = <<>>

\* one iteration of the retry loop
ApiAttempt ==
    /\ api_pc = "loop" /\ attempt < max_retries
    /\ LET r == AttemptStep(transport[attempt + 1], attempt, max_retries,
                            reference_tracker)
       IN  /\ waits' = IF r.slept THEN Append(waits, r.wait) ELSE waits
           /\ reference_tracker' = r.tracker
           /\ attempt' = IF r.status = "continue" THEN attempt + 1
                         ELSE attempt
           /\ transport_calls' = transport_calls + 1
           /\ api_pc' = CASE r.status = "return" -> "done"
                          [] r.status = "raise" -> "raised"
                          [] OTHER -> "loop"
           /\ api_ret' = IF r.status = "return" THEN r.value ELSE api_ret
    /\ UNCHANGED <<max_retries, transport>>
    /\ UNCHANGED <<conv_vars, run_vars, store_vars>>

\* the loop ends without a return: return "Failed after all retries"
ApiLoopExhausted ==
    /\ api_pc = "loop" /\ attempt >= max_retries
    /\ api_pc' = "done" /\ api_ret' = FailedMsg
    /\ UNCHANGED <<max_retries, transport, attempt, transport_calls, waits,
                   reference_tracker>>
    /\ UNCHANGED <<conv_vars, run_vars, store_vars>>

ApiNext ==
    \/ ApiAttempt
    \/ ApiLoopExhausted


\* --------------------------------------------------- run_layer3_research
\* structured_data["layers"] as nested sequences of records
Min(a, b) == IF a <= b THEN a ELSE b

RECURSIVE SumLens(_)
SumLens(seqs) ==
    IF seqs = <<>> THEN 0 ELSE Len(Head(seqs)) + SumLens(Tail(seqs))

CountCats(layers) ==
    SumLens([i \in 1..Len(layers) |-> layers[i].categories])

RECURSIVE TotalQuestions(_)
TotalQuestions(layers) ==
    IF layers = <<>> THEN 0
    ELSE SumLens([j \in 1..Len(Head(layers).categories) |->
                    Head(layers).categories[j].questions])
         + TotalQuestions(Tail(layers))

\* input trees: no, one or two themes, each of no, one or two categories,
\* each of no, one or two main questions, MaxTotalQ main questions in all;
\* a main question has no sub-questions or two
ThemeCounts == 0..2
CategoryCounts == 0..2
QuestionCounts == 0..2
SubLists == {<<>>, <<"S1", "S2">>}

QuestionLists(budget) ==
    UNION {{[k \in 1..n |-> [main_question |-> <<"Q", ToString(k)>>,
                             sub_questions |-> subs[k]]] :
              subs \in [1..n -> SubLists]} :
           n \in {m \in QuestionCounts : m <= budget}}

RECURSIVE CategoryLists(_, _)
CategoryLists(n, budget) ==
    IF n = 0 THEN {<<>>}
    ELSE UNION {{Append(cs, [name |-> <<"C", ToString(n)>>, questions |-> qs]) :
                    qs \in QuestionLists(budget - SumLens(
                            [j \in 1..Len(cs) |-> cs[j].questions]))} :
                cs \in CategoryLists(n - 1, budget)}

RECURSIVE LayerLists(_, _)
LayerLists(n, budget) ==
    IF n = 0 THEN {<<>>}
    ELSE UNION {{Append(ls, [name |-> <<"T", ToString(n)>>, categories |-> cs]) :
                    cs \in UNION {CategoryLists(c, budget - TotalQuestions(ls)) :
                                    c \in CategoryCounts}} :
                ls \in LayerLists(n - 1, budget)}

InputTrees == UNION {LayerLists(n, MaxTotalQ) : n \in ThemeCounts}

\* transports the run's calls meet: an answer with sources, an empty
\* answer, a failure that is not a rate limit
RunScripts ==
    { <<[kind |-> "ok", content |-> <<"World Bank", "text", "GSO">>,
         error |-> NoError]>>,
      <<[kind |-> "ok", content |-> <<>>, error |-> NoError]>>,
      <<[kind |-> "error", content |-> NoneContent,
         error |-> [text |-> "Connection error", has_429 |-> FALSE,
                    has_rate_limit |-> FALSE]]>> }

NoReport ==
    [present |-> FALSE, comprehensive_content |-> NoneContent,
     sub_questions_integrated |-> <<>>]

NoCategoryAnalysis ==
    [present |-> FALSE, comprehensive_content |-> NoneContent,
     questions_analyzed |-> <<>>]

NoQuestionResult ==
    [main_question |-> <<>>, sub_questions |-> <<>>,
     layer3_content |-> NoneContent, layer4_comprehensive_report |-> NoReport]

NoCounters ==
    [processed_questions |-> 0, total_questions |-> 0,
     questions_remaining |-> 0, processed_categories |-> 0,
     total_questions_processed |-> 0]

CallEvent(tag, call) ==
    [ev |-> "call", tag |-> tag, at |-> <<li, ci, qi>>, waits |-> call.waits,
     secs |-> 0, value |-> call.value]

CallEvents(tag, calls) == [i \in 1..Len(calls) |-> CallEvent(tag, calls[i])]

SleepEvent == [ev |-> "sleep", tag |-> "delay", at |-> <<li, ci, qi>>,
               waits |-> <<>>, secs |-> DelaySeconds, value |-> NoneContent]

\* sorted(reference_tracker.items(), key=count, reverse=True)[:limit]
\* (the sort is stable: equal counts keep their insertion order)
get_top_references_unsorted(tracker, limit) ==
    SubSeq(tracker, 1, Min(limit, Len(tracker)))

\* sorted(self.reference_tracker.items(), key=lambda x: x[1], reverse=True)
\* keeps the dict's order among equal counts; [:limit]
get_top_references(tracker, limit) ==
    LET rank(i) == Cardinality({j \in 1..Len(tracker) :
                        \/ tracker[j].count > tracker[i].count
                        \/ (tracker[j].count = tracker[i].count /\ j < i)}) + 1
        sorted == [r \in 1..Len(tracker) |->
                     tracker[CHOOSE i \in 1..Len(tracker) : rank(i) = r]]
    IN  SubSeq(sorted, 1, Min(limit, Len(sorted)))

\* the lookup loops of enhance_to_layer4_comprehensive: every layer and
\* category of the given names is visited, in each the first question of the
\* given text is taken, and a later hit overwrites an earlier one
Layer3Lookup(results, layer_name, category_name, main_question) ==
    LET hits == {<<l, c>> \in (1..Len(results)) \X
                              (1..CountCats(results)) :
                    /\ results[l].layer_name = layer_name
                    /\ c <= Len(results[l].categories)
                    /\ results[l].categories[c].category_name = category_name
                    /\ \E q \in 1..Len(results[l].categories[c].questions) :
                         results[l].categories[c].questions[q].main_question
                            = main_question}
    IN  IF hits = {}
        THEN [layer3_content |-> <<>>, sub_questions |-> <<>>]
        ELSE LET last == CHOOSE h \in hits : \A g \in hits :
                            g[1] < h[1] \/ (g[1] = h[1] /\ g[2] <= h[2])
                 qs == results[last[1]].categories[last[2]].questions
                 q == CHOOSE i \in 1..Len(qs) :
                        /\ qs[i].main_question = main_question
                        /\ \A j \in 1..(i - 1) :
                             qs[j].main_question # main_question
             IN  [layer3_content |-> qs[q].layer3_content,
                  sub_questions |-> qs[q].sub_questions]

NoLayer3Msg == <<"Khong tim thay noi dung Layer 3 de enhance">>
NoSubQuestionsMsg == <<"Khong tim thay sub-questions de tao bao cao tong hop">>

\* what a step that may call the model hands back: the text, the tally and
\* the call_openai_api invocations it made
NoCall(value, tracker) ==
    [value |-> value, tracker |-> tracker, calls |-> <<>>]

OneCall(script, tracker) ==
    LET r == call_openai_api(script, tracker)
    IN  [value |-> r.value, tracker |-> r.tracker, calls |-> <<r>>]

\* enhance_to_layer4_comprehensive: the report text, and whether the model
\* was called for it
enhance_to_layer4_comprehensive(results, layer_name, category_name, main_question, script, tracker) ==
    LET found == Layer3Lookup(results, layer_name, category_name,
                              main_question)
    IN  IF found.layer3_content = <<>> \/ found.layer3_content = NoneContent
        THEN NoCall(NoLayer3Msg, tracker)
        ELSE IF found.sub_questions = <<>>
        THEN NoCall(NoSubQuestionsMsg, tracker)
        ELSE OneCall(script, tracker)

RunIdle ==
    /\ run_pc = "idle" /\ structured_data = <<>>
    /\ testing_mode = FALSE /\ analysis_level = "Layer 4 Analysis"
    /\ li = 0 /\ ci = 0 /\ qi = 0 /\ questions = <<>>
    /\ research_results = <<>> /\ layer_result = <<>>
    /\ category_result = <<>> /\ question_result = NoQuestionResult
    /\ counters = NoCounters /\ events = <<>> /\ run_ret = <<>>

RunInit ==
    /\ run_pc = "start" /\ structured_data \in InputTrees
    /\ testing_mode \in BOOLEAN
    /\ analysis_level \in {"Layer 3 Analysis", "Layer 4 Analysis"}
    /\ li = 0 /\ ci = 0 /\ qi = 0 /\ questions = <<>>
    /\ research_results = <<>> /\ layer_result = <<>>
    /\ category_result = <<>> /\ question_result = NoQuestionResult
    /\ counters = NoCounters /\ events = <<>> /\ run_ret = <<>>

PerCategoryNever == FALSE

\* if analysis_level == "Layer 3 Analysis"
PerCategory == analysis_level = "Layer 3 Analysis"

ApiUntouched ==
    UNCHANGED <<api_pc, max_retries, transport, attempt, transport_calls,
                waits, api_ret>>

KeptTracker(tracker) == tracker

\* self.reference_tracker = {}
ResetTracker(tracker) == <<>>

\* run_layer3_research up to the branch, and the chosen runner up to its
\* first loop: the tally is reset and the totals are counted
RunStart ==
    /\ run_pc = "start"
    /\ reference_tracker' = ResetTracker(reference_tracker)
    /\ LET available == TotalQuestions(structured_data)
           total == IF testing_mode THEN Min(TestLimit, available)
                    ELSE available
       IN  counters' = IF PerCategory THEN NoCounters
                       ELSE [NoCounters EXCEPT
                               !.total_questions = total,
                               !.questions_remaining =
                                   IF testing_mode THEN total ELSE Infinity]
    /\ li' = 1 /\ run_pc' = "layer"
    /\ ApiUntouched
    /\ UNCHANGED <<structured_data, testing_mode, analysis_level, ci, qi,
                   questions, research_results, layer_result,
                   category_result, question_result, events, run_ret>>
    /\ UNCHANGED <<conv_vars, store_vars>>

\* ---- _run_layer4_detailed_analysis
LimitReached ==
    testing_mode /\ counters.processed_questions >= counters.total_questions

\* for layer in structured_data['layers']: a new layer_result
L4_Layer ==
    /\ run_pc = "layer" /\ ~PerCategory /\ li <= Len(structured_data)
    /\ layer_result' = [layer_name |-> structured_data[li].name,
                        categories |-> <<>>]
    /\ ci' = 1 /\ run_pc' = "category"
    /\ ApiUntouched
    /\ UNCHANGED <<reference_tracker, structured_data, testing_mode,
                   analysis_level, li, qi, questions, research_results,
                   category_result, question_result, counters, events,
                   run_ret>>
    /\ UNCHANGED <<conv_vars, store_vars>>

Reverse(seq) == [i \in 1..Len(seq) |-> seq[Len(seq) + 1 - i]]

QuestionsToProcessReversed(category_questions, testing, count) ==
    Reverse(category_questions)

\* questions = questions[:questions_to_process] in testing mode, the whole
\* list otherwise
QuestionsToProcess(category_questions, testing, count) ==
    IF testing THEN SubSeq(category_questions, 1, count)
    ELSE category_questions

\* for category in layer['categories']: a new category_result, and in
\* testing mode the question list cut to what remains
L4_Category ==
    /\ run_pc = "category" /\ ~PerCategory
    /\ ci <= Len(structured_data[li].categories)
    /\ LET category == structured_data[li].categories[ci]
           questions_to_process ==
               Min(Len(category.questions), counters.questions_remaining)
       IN  /\ category_result' = [category_name |-> category.name,
                                  questions |-> <<>>,
                                  layer3_comprehensive_category |->
                                      NoCategoryAnalysis]
           /\ questions' = QuestionsToProcess(category.questions,
                                              testing_mode,
                                              questions_to_process)
           /\ counters' = IF testing_mode
                          THEN [counters EXCEPT !.questions_remaining =
                                    @ - questions_to_process]
                          ELSE counters
    /\ qi' = 1 /\ run_pc' = "question"
    /\ ApiUntouched
    /\ UNCHANGED <<reference_tracker, structured_data, testing_mode,
                   analysis_level, li, ci, research_results, layer_result,
                   question_result, events, run_ret>>
    /\ UNCHANGED <<conv_vars, store_vars>>

Layer3ContentTwoCalls(script, tracker) ==
    LET g == call_openai_api(script, tracker)
        r == call_openai_api(script, g.tracker)
    IN  [value |-> r.value, tracker |-> r.tracker, calls |-> <<g, r>>]

IsErrorText(value) == value # <<>> /\ Head(value) = "API Error:"

Layer3ContentDropError(script, tracker) ==
    LET r == call_openai_api(script, tracker)
    IN  [value |-> IF IsErrorText(r.value) THEN NoneContent ELSE r.value,
         tracker |-> r.tracker, calls |-> <<r>>]

Layer3ContentNoCall(script, tracker) == NoCall(<<"text">>, tracker)

\* layer3_content = self.call_openai_api(layer3_prompt): the prompt built by
\* create_layer3_prompt_request goes to the model once
Layer3Content(script, tracker) == OneCall(script, tracker)

\* for question_data in questions: the Layer 3 call and the question_result
L4_BaseCall ==
    /\ run_pc = "question" /\ ~PerCategory
    /\ qi <= Len(questions) /\ ~LimitReached
    /\ \E script \in RunScripts :
         LET r == Layer3Content(script, reference_tracker)
         IN  /\ reference_tracker' = r.tracker
             /\ question_result' =
                    [main_question |-> questions[qi].main_question,
                     sub_questions |-> questions[qi].sub_questions,
                     layer3_content |-> r.value,
                     layer4_comprehensive_report |-> NoReport]
             /\ events' = events \o CallEvents("layer3", r.calls)
    /\ counters' = [counters EXCEPT !.processed_questions = @ + 1]
    /\ run_pc' = "layer4"
    /\ ApiUntouched
    /\ UNCHANGED <<structured_data, testing_mode, analysis_level, li, ci, qi,
                   questions, research_results, layer_result,
                   category_result, run_ret>>
    /\ UNCHANGED <<conv_vars, store_vars>>

ReportAlways(sub_questions) == TRUE

\* if sub_questions and len(sub_questions) > 0
WantsReport(sub_questions) == sub_questions # <<>>

\* the automatic Layer 4 report on a temporary structure that holds only the
\* current question, then append the question_result and sleep
L4_ReportAndAppend ==
    /\ run_pc = "layer4" /\ ~PerCategory
    /\ \E script \in RunScripts :
         LET temp_structure ==
                 << [layer_name |-> layer_result.layer_name,
                     categories |->
                        << [category_name |-> category_result.category_name,
                            questions |-> <<question_result>>] >>] >>
             r == IF WantsReport(question_result.sub_questions)
                  THEN enhance_to_layer4_comprehensive(
                          temp_structure, layer_result.layer_name,
                          category_result.category_name,
                          question_result.main_question, script,
                          reference_tracker)
                  ELSE NoCall(NoneContent, reference_tracker)
             done == IF WantsReport(question_result.sub_questions)
                     THEN [question_result EXCEPT
                             !.layer4_comprehensive_report =
                                 [present |-> TRUE,
                                  comprehensive_content |-> r.value,
                                  sub_questions_integrated |->
                                      question_result.sub_questions]]
                     ELSE question_result
         IN  /\ reference_tracker' = r.tracker
             /\ question_result' = done
             /\ category_result' =
                    [category_result EXCEPT !.questions = Append(@, done)]
             /\ events' = (events \o CallEvents("layer4", r.calls))
                          \o <<SleepEvent>>
    /\ qi' = qi + 1 /\ run_pc' = "question"
    /\ ApiUntouched
    /\ UNCHANGED <<structured_data, testing_mode, analysis_level, li, ci,
                   questions, research_results, layer_result, counters,
                   run_ret>>
    /\ UNCHANGED <<conv_vars, store_vars>>

HasQuestionsOrNot(category) == TRUE

\* if category_result['questions']:
HasQuestions(category) == category.questions # <<>>

\* end of the question loop: keep the category if it has questions; in
\* testing mode leave the category loop once the limit is reached
L4_EndCategory ==
    /\ run_pc = "question" /\ ~PerCategory
    /\ (qi > Len(questions) \/ LimitReached)
    /\ layer_result' = IF HasQuestions(category_result)
                       THEN [layer_result EXCEPT
                               !.categories = Append(@, category_result)]
                       ELSE layer_result
    /\ IF LimitReached
       THEN run_pc' = "endlayer" /\ ci' = ci
       ELSE run_pc' = "category" /\ ci' = ci + 1
    /\ ApiUntouched
    /\ UNCHANGED <<reference_tracker, structured_data, testing_mode,
                   analysis_level, li, qi, questions, research_results,
                   category_result, question_result, counters, events,
                   run_ret>>
    /\ UNCHANGED <<conv_vars, store_vars>>

\* end of the category loop: keep the layer if it has categories; in
\* testing mode leave the layer loop once the limit is reached
L4_EndLayer ==
    /\ ~PerCategory
    /\ \/ run_pc = "endlayer"
       \/ run_pc = "category" /\ ci > Len(structured_data[li].categories)
    /\ research_results' = IF layer_result.categories # <<>>
                           THEN Append(research_results, layer_result)
                           ELSE research_results
    /\ IF LimitReached
       THEN run_pc' = "final" /\ li' = li
       ELSE run_pc' = "layer" /\ li' = li + 1
    /\ ApiUntouched
    /\ UNCHANGED <<reference_tracker, structured_data, testing_mode,
                   analysis_level, ci, qi, questions, layer_result,
                   category_result, question_result, counters, events,
                   run_ret>>
    /\ UNCHANGED <<conv_vars, store_vars>>

\* after the loops: the top references and the statistics; return result
L4_Finalize ==
    /\ ~PerCategory
    /\ \/ run_pc = "final"
       \/ run_pc = "layer" /\ li > Len(structured_data)
    /\ run_ret' = [research_results |-> research_results,
                   tracked_references |->
                       get_top_references(reference_tracker, TopLimit),
                   research_statistics |->
                       [total_questions_processed |->
                            counters.processed_questions,
                        total_categories_processed |-> 0,
                        total_api_calls |-> counters.processed_questions * 2]]
    /\ run_pc' = "done"
    /\ ApiUntouched
    /\ UNCHANGED <<reference_tracker, structured_data, testing_mode,
                   analysis_level, li, ci, qi, questions, research_results,
                   layer_result, category_result, question_result, counters,
                   events>>
    /\ UNCHANGED <<conv_vars, store_vars>>

\* ---- _run_layer3_category_analysis
CategoryLimitReached ==
    testing_mode /\ counters.total_questions_processed >= TestLimit

L3_Layer ==
    /\ run_pc = "layer" /\ PerCategory /\ li <= Len(structured_data)
    /\ layer_result' = [layer_name |-> structured_data[li].name,
                        categories |-> <<>>]
    /\ ci' = 1 /\ run_pc' = "category"
    /\ ApiUntouched
    /\ UNCHANGED <<reference_tracker, structured_data, testing_mode,
                   analysis_level, li, qi, questions, research_results,
                   category_result, question_result, counters, events,
                   run_ret>>
    /\ UNCHANGED <<conv_vars, store_vars>>

CategoryCallSkipEmpty(all_main_questions, script, tracker) ==
    IF all_main_questions = <<>> THEN NoCall(<<>>, tracker)
    ELSE OneCall(script, tracker)

\* comprehensive_content = self.call_openai_api(comprehensive_prompt)
CategoryCall(all_main_questions, script, tracker) == OneCall(script, tracker)

\* for category in layer['categories']: one call for all its questions,
\* the category_result, the sleep, and the testing-mode breaks
L3_Category ==
    /\ run_pc = "category" /\ PerCategory
    /\ ci <= Len(structured_data[li].categories)
    /\ \E script \in RunScripts :
         LET category == structured_data[li].categories[ci]
             questions_remaining ==
                 TestLimit - counters.total_questions_processed
             qs == IF testing_mode
                   THEN SubSeq(category.questions, 1,
                               Min(Len(category.questions),
                                   questions_remaining))
                   ELSE category.questions
             all_main_questions == [k \in 1..Len(qs) |-> qs[k].main_question]
             r == CategoryCall(all_main_questions, script, reference_tracker)
             category_questions ==
                 [k \in 1..Len(qs) |->
                    [main_question |-> qs[k].main_question,
                     sub_questions |-> qs[k].sub_questions,
                     layer3_content |-> NoneContent,
                     layer4_comprehensive_report |-> NoReport]]
             cr == [category_name |-> category.name,
                    questions |-> category_questions,
                    layer3_comprehensive_category |->
                        [present |-> TRUE,
                         comprehensive_content |-> r.value,
                         questions_analyzed |-> all_main_questions]]
             processed == counters.total_questions_processed
                          + Len(all_main_questions)
         IN  IF testing_mode /\ questions_remaining <= 0
             THEN \* break before anything is done for this category
                  /\ counters' = [counters EXCEPT
                                    !.processed_categories = @ + 1]
                  /\ run_pc' = "endlayer"
                  /\ UNCHANGED <<questions, reference_tracker,
                                 category_result, layer_result, events, ci>>
             ELSE /\ questions' = qs
                  /\ reference_tracker' = r.tracker
                  /\ category_result' = cr
                  /\ layer_result' = [layer_result EXCEPT
                                        !.categories = Append(@, cr)]
                  /\ events' = (events \o CallEvents("category", r.calls))
                               \o <<SleepEvent>>
                  /\ counters' = [counters EXCEPT
                                    !.processed_categories = @ + 1,
                                    !.total_questions_processed = processed]
                  /\ IF testing_mode /\ processed >= TestLimit
                     THEN run_pc' = "endlayer" /\ ci' = ci
                     ELSE run_pc' = "category" /\ ci' = ci + 1
    /\ ApiUntouched
    /\ UNCHANGED <<structured_data, testing_mode, analysis_level, li, qi,
                   research_results, question_result, run_ret>>
    /\ UNCHANGED <<conv_vars, store_vars>>

\* end of the category loop: the layer is always kept; in testing mode
\* leave the layer loop once the limit is reached
L3_EndLayer ==
    /\ PerCategory
    /\ \/ run_pc = "endlayer"
       \/ run_pc = "category" /\ ci > Len(structured_data[li].categories)
    /\ research_results' = Append(research_results, layer_result)
    /\ IF CategoryLimitReached
       THEN run_pc' = "final" /\ li' = li
       ELSE run_pc' = "layer" /\ li' = li + 1
    /\ ApiUntouched
    /\ UNCHANGED <<reference_tracker, structured_data, testing_mode,
                   analysis_level, ci, qi, questions, layer_result,
                   category_result, question_result, counters, events,
                   run_ret>>
    /\ UNCHANGED <<conv_vars, store_vars>>

L3_Finalize ==
    /\ PerCategory
    /\ \/ run_pc = "final"
       \/ run_pc = "layer" /\ li > Len(structured_data)
    /\ run_ret' = [research_results |-> research_results,
                   tracked_references |->
                       get_top_references(reference_tracker, TopLimit),
                   research_statistics |->
                       [total_questions_processed |->
                            counters.total_questions_processed,
                        total_categories_processed |->
                            counters.processed_categories,
                        total_api_calls |-> counters.processed_categories]]
    /\ run_pc' = "done"
    /\ ApiUntouched
    /\ UNCHANGED <<reference_tracker, structured_data, testing_mode,
                   analysis_level, li, ci, qi, questions, research_results,
                   layer_result, category_result, question_result, counters,
                   events>>
    /\ UNCHANGED <<conv_vars, store_vars>>

RunNext ==
    \/ RunStart
    \/ L4_Layer
    \/ L4_Category
    \/ L4_BaseCall
    \/ L4_ReportAndAppend
    \/ L4_EndCategory
    \/ L4_EndLayer
    \/ L4_Finalize
    \/ L3_Layer
    \/ L3_Category
    \/ L3_EndLayer
    \/ L3_Finalize

\* -------------------------------------------------------- specifications
\* ------------------------------------- add_layer4_*_enhancement (the store)
\* the results a per-question run leaves behind never hold an empty layer or
\* an empty category
StoredTrees ==
    {t \in InputTrees :
        \A l \in 1..Len(t) :
            /\ t[l].categories # <<>>
            /\ \A c \in 1..Len(t[l].categories) :
                  t[l].categories[c].questions # <<>>}

\* question['layer4_enhancements']: the key exists only in the results of
\* process_layer3_research
NoEnhancements(present) == [present |-> present, entries |-> <<>>]

ResultOf(tree, content, legacy) ==
    [l \in 1..Len(tree) |->
       [layer_name |-> tree[l].name,
        categories |->
          [c \in 1..Len(tree[l].categories) |->
             [category_name |-> tree[l].categories[c].name,
              questions |->
                [q \in 1..Len(tree[l].categories[c].questions) |->
                   [main_question |->
                        tree[l].categories[c].questions[q].main_question,
                    sub_questions |->
                        tree[l].categories[c].questions[q].sub_questions,
                    layer3_content |-> content,
                    layer4_comprehensive_report |-> NoReport,
                    layer4_enhancements |-> NoEnhancements(legacy)]]]]]]

\* a file is its document and the way it is laid out in bytes; json.dump
\* with indent=2 and ensure_ascii=False writes the layout "indent2"
Layouts == {"indent2", "other"}

\* results whose category holds one main question twice: the converter
\* reuses a theme or a category whose name it has seen, but appends a new
\* main question for every level-2 cell
RepeatedQuestion(subs) ==
    [main_question |-> <<"Q", "1">>, sub_questions |-> subs]

RepeatedQuestionTrees ==
    { <<[name |-> <<"T", "1">>, categories |->
          <<[name |-> <<"C", "1">>, questions |->
               <<RepeatedQuestion(<<"S1", "S2">>), RepeatedQuestion(<<>>)>>]>>]>>,
      <<[name |-> <<"T", "1">>, categories |->
          <<[name |-> <<"C", "1">>, questions |->
               <<RepeatedQuestion(<<>>)>>],
            [name |-> <<"C", "2">>, questions |->
               <<[main_question |-> <<"Q", "2">>, sub_questions |-> <<>>],
                 RepeatedQuestion(<<>>),
                 RepeatedQuestion(<<"S1", "S2">>)>>]>>]>> }

\* the keys of the saved result beside research_results, here the ranked
\* references
Metadatas == {<<>>, <<[source |-> "World Bank", count |-> 1]>>}

StoredFiles ==
    {[doc |-> ResultOf(t, content, legacy), layout |-> layout,
      metadata |-> metadata] :
        t \in StoredTrees \cup RepeatedQuestionTrees,
        content \in {<<"text">>, <<>>},
        legacy \in BOOLEAN, layout \in Layouts, metadata \in Metadatas}

StoreOps ==
    {[fn |-> fn, layer_name |-> <<"T", t>>, category_name |-> <<"C", c>>,
      main_question |-> <<"Q", q>>, sub_question |-> "S1"] :
        fn \in {"add_layer4_enhancement",
                "add_layer4_comprehensive_enhancement"},
        t \in {"1", "2"}, c \in {"1", "2"}, q \in {"1", "2"}}

NoOp == [fn |-> "none", layer_name |-> <<>>, category_name |-> <<>>,
         main_question |-> <<>>, sub_question |-> ""]

ResultsPath == "results.json"

EveryMatch(qs, main_question) ==
    {q \in 1..Len(qs) : qs[q].main_question = main_question}

\* the update loops: in every layer and category of the given names, the
\* first question of the given text
FirstMatch(qs, main_question) ==
    {q \in 1..Len(qs) :
        /\ qs[q].main_question = main_question
        /\ \A j \in 1..(q - 1) : qs[j].main_question # main_question}

Matches(doc, op) ==
    {<<l, c, q>> \in (1..Len(doc)) \X (1..CountCats(doc))
                                   \X (1..TotalQuestions(doc)) :
        /\ doc[l].layer_name = op.layer_name
        /\ c <= Len(doc[l].categories)
        /\ doc[l].categories[c].category_name = op.category_name
        /\ q \in FirstMatch(doc[l].categories[c].questions,
                            op.main_question)}

\* enhance_to_layer4: two model calls, the second on the prompt the first
\* handed back
enhance_to_layer4(results, layer_name, category_name, main_question, script, tracker) ==
    LET found == Layer3Lookup(results, layer_name, category_name,
                              main_question)
    IN  IF found.layer3_content = <<>> \/ found.layer3_content = NoneContent
        THEN NoCall(NoLayer3Msg, tracker)
        ELSE LET g == call_openai_api(script, tracker)
                 r == call_openai_api(script, g.tracker)
             IN  [value |-> r.value, tracker |-> r.tracker,
                  calls |-> <<g, r>>]

\* question['layer4_enhancements'][sub_question] = {...}
SetEntry(entries, key, content) ==
    IF \E i \in 1..Len(entries) : entries[i].sub_question = key
    THEN [i \in 1..Len(entries) |->
            IF entries[i].sub_question = key
            THEN [sub_question |-> key, enhanced_content |-> content]
            ELSE entries[i]]
    ELSE Append(entries, [sub_question |-> key, enhanced_content |-> content])

UpdateQuestion(question, op, content) ==
    IF op.fn = "add_layer4_enhancement"
    THEN [question EXCEPT !.layer4_enhancements.entries =
                              SetEntry(@, op.sub_question, content)]
    ELSE [question EXCEPT !.layer4_comprehensive_report =
                              [present |-> TRUE,
                               comprehensive_content |-> content,
                               sub_questions_integrated |->
                                   question.sub_questions]]

UpdateDoc(doc, op, content) ==
    [l \in 1..Len(doc) |->
       [doc[l] EXCEPT !.categories =
          [c \in 1..Len(doc[l].categories) |->
             [doc[l].categories[c] EXCEPT !.questions =
                [q \in 1..Len(doc[l].categories[c].questions) |->
                   IF <<l, c, q>> \in Matches(doc, op)
                   THEN UpdateQuestion(doc[l].categories[c].questions[q],
                                       op, content)
                   ELSE doc[l].categories[c].questions[q]]]]]]

\* a located question without the 'layer4_enhancements' key: KeyError
RaisesKeyError(doc, op) ==
    /\ op.fn = "add_layer4_enhancement"
    /\ \E m \in Matches(doc, op) :
          ~doc[m[1]].categories[m[2]].questions[m[3]]
                                     .layer4_enhancements.present

StoreIdle ==
    /\ store_pc = "idle" /\ store_op = NoOp
    /\ results_file = [doc |-> <<>>, layout |-> "indent2", metadata |-> <<>>]
    /\ file_before = [doc |-> <<>>, layout |-> "indent2", metadata |-> <<>>]
    /\ store_content = NoneContent /\ store_calls = <<>>
    /\ store_writes = 0 /\ store_ret = NoReturn
    /\ flow_pc = "idle" /\ flow_todo = <<>>

StoreStart ==
    /\ store_pc = "start" /\ store_op \in StoreOps
    /\ results_file \in StoredFiles
    /\ file_before = results_file
    /\ store_content = NoneContent /\ store_calls = <<>>
    /\ store_writes = 0 /\ store_ret = NoReturn
    /\ flow_pc = "idle" /\ flow_todo = <<>>

\* json.load(results_file), then the enhance step
StoreEnhance ==
    /\ store_pc = "start"
    /\ \E script \in RunScripts :
         LET r == IF store_op.fn = "add_layer4_enhancement"
                  THEN enhance_to_layer4(
                          results_file.doc, store_op.layer_name,
                          store_op.category_name, store_op.main_question,
                          script, reference_tracker)
                  ELSE enhance_to_layer4_comprehensive(
                          results_file.doc, store_op.layer_name,
                          store_op.category_name, store_op.main_question,
                          script, reference_tracker)
         IN  /\ store_content' = r.value
             /\ store_calls' = r.calls
             /\ reference_tracker' = r.tracker
    /\ store_pc' = "update"
    /\ ApiUntouched
    /\ UNCHANGED <<store_op, results_file, file_before, store_writes,
                   store_ret, flow_pc, flow_todo>>
    /\ UNCHANGED <<conv_vars, run_vars>>

\* the update loops, then json.dump(results) over results_file (output_file
\* is None) and return output_file
StoreWrite ==
    /\ store_pc = "update"
    /\ ~RaisesKeyError(results_file.doc, store_op)
    /\ results_file' = [doc |-> UpdateDoc(results_file.doc, store_op,
                                          store_content),
                        layout |-> "indent2",
                        metadata |-> results_file.metadata]
    /\ store_writes' = store_writes + 1
    /\ store_ret' = ResultsPath
    /\ store_pc' = "done"
    /\ UNCHANGED <<store_op, file_before, store_content, store_calls,
                   flow_pc, flow_todo>>
    /\ UNCHANGED <<conv_vars, api_vars, run_vars>>

\* the update loops raise KeyError: nothing is written, nothing is returned
StoreKeyError ==
    /\ store_pc = "update"
    /\ RaisesKeyError(results_file.doc, store_op)
    /\ store_pc' = "raised"
    /\ UNCHANGED <<store_op, results_file, file_before, store_content,
                   store_calls, store_writes, store_ret, flow_pc, flow_todo>>
    /\ UNCHANGED <<conv_vars, api_vars, run_vars>>

StoreNext ==
    \/ StoreEnhance
    \/ StoreWrite
    \/ StoreKeyError

\* ------------------------------------- run_complete_research_workflow
RECURSIVE Concat(_)
Concat(seqs) == IF seqs = <<>> THEN <<>> ELSE Head(seqs) \o Concat(Tail(seqs))

\* the question nodes of a result in the order of the three nested loops
ResultPlaces(results) ==
    Concat([l \in 1..Len(results) |->
      Concat([c \in 1..Len(results[l].categories) |->
        [q \in 1..Len(results[l].categories[c].questions) |-> <<l, c, q>>]])])

\* a model call of the workflow's own pass, for the question at place
PassEvent(place, call) ==
    [ev |-> "call", tag |-> "pass", at |-> place, waits |-> call.waits,
     secs |-> 0, value |-> call.value]

\* the command-line workflow starts a full run with the default analysis
\* level on the converted tree
FlowStart ==
    /\ run_pc = "start"
    /\ structured_data \in StoredTrees \cup RepeatedQuestionTrees
    /\ testing_mode = FALSE /\ analysis_level = "Layer 4 Analysis"
    /\ li = 0 /\ ci = 0 /\ qi = 0 /\ questions = <<>>
    /\ research_results = <<>> /\ layer_result = <<>>
    /\ category_result = <<>> /\ question_result = NoQuestionResult
    /\ counters = NoCounters /\ events = <<>> /\ run_ret = <<>>
    /\ store_pc = "idle" /\ store_op = NoOp
    /\ results_file = [doc |-> <<>>, layout |-> "indent2", metadata |-> <<>>]
    /\ file_before = [doc |-> <<>>, layout |-> "indent2", metadata |-> <<>>]
    /\ store_content = NoneContent /\ store_calls = <<>>
    /\ store_writes = 0 /\ store_ret = NoReturn
    /\ flow_pc = "research" /\ flow_todo = <<>>

\* json.dump(result) to output_file after the run has returned
FlowSave ==
    /\ flow_pc = "research" /\ run_pc = "done"
    /\ results_file' = [doc |-> run_ret.research_results,
                        layout |-> "indent2",
                        metadata |-> run_ret.tracked_references]
    /\ store_writes' = store_writes + 1
    /\ flow_todo' = ResultPlaces(run_ret.research_results)
    /\ flow_pc' = "enhance"
    /\ UNCHANGED <<store_pc, store_op, file_before, store_content,
                   store_calls, store_ret>>
    /\ UNCHANGED <<conv_vars, api_vars, run_vars>>

\* one iteration of the loops over result: for a question that has
\* sub-questions, add_layer4_comprehensive_enhancement on the saved file with
\* the labels of the question (load, enhance, update, save)
FlowQuestion ==
    /\ flow_pc = "enhance" /\ flow_todo # <<>>
    /\ LET place == Head(flow_todo)
           layer == run_ret.research_results[place[1]]
           category == layer.categories[place[2]]
           question == category.questions[place[3]]
           op == [fn |-> "add_layer4_comprehensive_enhancement",
                  layer_name |-> layer.layer_name,
                  category_name |-> category.category_name,
                  main_question |-> question.main_question,
                  sub_question |-> ""]
       IN  IF question.sub_questions # <<>>
           THEN \E script \in RunScripts :
                  LET r == enhance_to_layer4_comprehensive(
                              results_file.doc, op.layer_name,
                              op.category_name, op.main_question,
                              script, reference_tracker)
                  IN  /\ reference_tracker' = r.tracker
                      /\ events' = events \o
                            [i \in 1..Len(r.calls) |->
                                PassEvent(place, r.calls[i])]
                      /\ results_file' =
                            [doc |-> UpdateDoc(results_file.doc, op, r.value),
                             layout |-> "indent2",
                             metadata |-> results_file.metadata]
                      /\ store_writes' = store_writes + 1
           ELSE UNCHANGED <<reference_tracker, events, results_file,
                            store_writes>>
    /\ flow_todo' = Tail(flow_todo)
    /\ ApiUntouched
    /\ UNCHANGED <<run_pc, structured_data, testing_mode, analysis_level,
                   li, ci, qi, questions, research_results, layer_result,
                   category_result, question_result, counters, run_ret>>
    /\ UNCHANGED <<store_pc, store_op, file_before, store_content,
                   store_calls, store_ret, flow_pc>>
    /\ UNCHANGED conv_vars

\* the loops are through: return True
FlowFinish ==
    /\ flow_pc = "enhance" /\ flow_todo = <<>>
    /\ flow_pc' = "done"
    /\ UNCHANGED <<store_pc, store_op, results_file, file_before,
                   store_content, store_calls, store_writes, store_ret,
                   flow_todo>>
    /\ UNCHANGED <<conv_vars, api_vars, run_vars>>

FlowNext ==
    \/ RunStart
    \/ L4_Layer
    \/ L4_Category
    \/ L4_BaseCall
    \/ L4_ReportAndAppend
    \/ L4_EndCategory
    \/ L4_EndLayer
    \/ L4_Finalize
    \/ FlowSave
    \/ FlowQuestion
    \/ FlowFinish

\* -------------------------------------------------------- specifications
FlowInit == FlowStart /\ ConvIdle /\ ApiIdle

SpecFlow == FlowInit /\ [][FlowNext]_vars

StoreInit == StoreStart /\ ConvIdle /\ ApiIdle /\ RunIdle

SpecStore == StoreInit /\ [][StoreNext]_vars

SheetInit == SheetStart /\ ApiIdle /\ RunIdle /\ StoreIdle

WideInit == WideStart /\ ApiIdle /\ RunIdle /\ StoreIdle

SpecWide == WideInit /\ [][SheetNext]_vars

SpecSheet == SheetInit /\ [][SheetNext]_vars

TreeInit == ConvInit /\ ApiIdle /\ RunIdle /\ StoreIdle

SpecTree == TreeInit /\ [][ConvNext]_vars

CallInit == ApiInit /\ ConvIdle /\ RunIdle /\ StoreIdle

SpecApi == CallInit /\ [][ApiNext]_vars

\* the call as one sequential loop: whenever a step can be taken, one is
SpecApiFair == CallInit /\ [][ApiNext]_vars /\ WF_vars(ApiNext)

ResearchInit == RunInit /\ ConvIdle /\ ApiIdle /\ StoreIdle

SpecRun == ResearchInit /\ [][RunNext]_vars

\* testing-mode runs over trees large enough to reach the limit: up to
\* MaxTestCats categories in one theme or two, every category (or every
\* other category) of the same number of main questions, none with
\* sub-questions
CategorySizes == {0, 1, 3}

TestCategory(k, j) ==
    [name |-> <<"C", ToString(j)>>,
     questions |-> [q \in 1..k |-> [main_question |-> <<"Q", ToString(q)>>,
                                    sub_questions |-> <<>>]]]

TestCategories(from, to, k, every_other) ==
    [i \in 1..(to - from + 1) |->
        TestCategory(IF every_other /\ (from + i - 1) % 2 = 0 THEN 0 ELSE k,
                     from + i - 1)]

TestTree(n, k, every_other, split) ==
    IF split /\ n > 1
    THEN << [name |-> <<"T", "1">>,
             categories |-> TestCategories(1, 1, k, every_other)],
            [name |-> <<"T", "2">>,
             categories |-> TestCategories(2, n, k, every_other)] >>
    ELSE << [name |-> <<"T", "1">>,
             categories |-> TestCategories(1, n, k, every_other)] >>

TestTrees ==
    {TestTree(n, k, every_other, split) :
        n \in 1..MaxTestCats, k \in CategorySizes,
        every_other \in BOOLEAN, split \in BOOLEAN}

TestRunInit ==
    /\ run_pc = "start" /\ structured_data \in TestTrees
    /\ testing_mode = TRUE
    /\ analysis_level \in {"Layer 3 Analysis", "Layer 4 Analysis"}
    /\ li = 0 /\ ci = 0 /\ qi = 0 /\ questions = <<>>
    /\ research_results = <<>> /\ layer_result = <<>>
    /\ category_result = <<>> /\ question_result = NoQuestionResult
    /\ counters = NoCounters /\ events = <<>> /\ run_ret = <<>>
    /\ ConvIdle /\ ApiIdle /\ StoreIdle

SpecTest == TestRunInit /\ [][RunNext]_vars

\* a run on a client object that has run before: the tally holds what the
\* earlier run left in it
PriorTallies ==
    { <<[source |-> "World Bank", count |-> 2]>>,
      <<[source |-> "world bank", count |-> 1],
        [source |-> "World Bank", count |-> 1]>> }

AgainInit ==
    /\ run_pc = "start" /\ structured_data \in StoredTrees
    /\ testing_mode \in BOOLEAN
    /\ analysis_level \in {"Layer 3 Analysis", "Layer 4 Analysis"}
    /\ li = 0 /\ ci = 0 /\ qi = 0 /\ questions = <<>>
    /\ research_results = <<>> /\ layer_result = <<>>
    /\ category_result = <<>> /\ question_result = NoQuestionResult
    /\ counters = NoCounters /\ events = <<>> /\ run_ret = <<>>
    /\ api_pc = "idle" /\ max_retries = DefaultMaxRetries
    /\ transport = <<>> /\ attempt = 0 /\ transport_calls = 0
    /\ waits = <<>> /\ api_ret = Running
    /\ reference_tracker \in PriorTallies
    /\ ConvIdle /\ StoreIdle

SpecAgain == AgainInit /\ [][RunNext]_vars

\* ---- get_top_references on any tally
\* canonical keys and unmapped names the tally can hold, in the order the
\* run first counted them
SourceNames ==
    << "General Statistics Office (GSO)", "World Bank",
       "International Monetary Fund (IMF)", "Asian Development Bank",
       "McKinsey & Company", "Deloitte Consulting", "KPMG International",
       "Nielsen Holdings", "Euromonitor International", "Statista GmbH",
       "Bloomberg", "Reuters", "Forbes" >>

TallyCounts == {1, 2}

\* self.reference_tracker at the end of the loops: a dict, so its keys are
\* distinct and kept in insertion order
Tallies ==
    UNION { { [i \in 1..n |-> [source |-> SourceNames[i], count |-> f[i]]] :
                f \in [1..n -> TallyCounts] } : n \in 0..MaxTally }

\* either runner after its loops, about to rank the tally
RankInit ==
    /\ run_pc = "final" /\ structured_data = <<>>
    /\ testing_mode = FALSE
    /\ analysis_level \in {"Layer 3 Analysis", "Layer 4 Analysis"}
    /\ li = 0 /\ ci = 0 /\ qi = 0 /\ questions = <<>>
    /\ research_results = <<>> /\ layer_result = <<>>
    /\ category_result = <<>> /\ question_result = NoQuestionResult
    /\ counters = NoCounters /\ events = <<>> /\ run_ret = <<>>
    /\ api_pc = "idle" /\ max_retries = DefaultMaxRetries
    /\ transport = <<>> /\ attempt = 0 /\ transport_calls = 0
    /\ waits = <<>> /\ api_ret = Running
    /\ reference_tracker \in Tallies
    /\ ConvIdle /\ StoreIdle

RankNext == L4_Finalize \/ L3_Finalize

SpecRank == RankInit /\ [][RankNext]_vars

\* the run as one sequential loop: whenever a step can be taken, one is;
\* over the trees without an empty theme or category
FairResearchInit ==
    RunInit /\ structured_data \in StoredTrees
            /\ ConvIdle /\ ApiIdle /\ StoreIdle

SpecRunFair == FairResearchInit /\ [][RunNext]_vars /\ WF_vars(RunNext)

\* ------------------------------------------------------ tree-build claims
Themes     == {i \in 1..Len(heap) : heap[i].kind = "theme"}
Categories == {i \in 1..Len(heap) : heap[i].kind = "category"}
Questions  == {i \in 1..Len(heap) : heap[i].kind = "question"}

\* the places (parent, position) where node id hangs under a parent of a kind
SlotsUnder(parents, id) ==
    {<<p, i>> \in parents \X (1..Len(heap)) :
        i <= Len(heap[p].children) /\ heap[p].children[i] = id}

TopSlots(id) == {i \in 1..Len(result_layers) : result_layers[i] = id}

\* the places where the sub-question value read at (row, level) is stored
SubSlots(row, level) ==
    {<<q, i>> \in Questions \X (1..(MaxRows * MaxCols)) :
        /\ i <= Len(heap[q].children)
        /\ heap[q].children[i].row = row
        /\ heap[q].children[i].level = level}

SubTags == UNION {{<<heap[q].children[i].row, heap[q].children[i].level>> :
                    i \in 1..Len(heap[q].children)} : q \in Questions}

\* C1: the built tree is a proper forest: every theme is listed once at the
\* top and nowhere else, every category hangs under exactly one theme, every
\* main question under exactly one category, and every stored sub-question
\* value under exactly one main question.
C1_ProperForest ==
    /\ \A t \in Themes :
         /\ Cardinality(TopSlots(t)) = 1
         /\ SlotsUnder(Themes \cup Categories, t) = {}
    /\ \A c \in Categories :
         /\ Cardinality(SlotsUnder(Themes, c)) = 1
         /\ SlotsUnder(Categories, c) = {} /\ TopSlots(c) = {}
    /\ \A q \in Questions :
         /\ Cardinality(SlotsUnder(Categories, q)) = 1
         /\ SlotsUnder(Themes, q) = {} /\ TopSlots(q) = {}
    /\ \A tag \in SubTags : Cardinality(SubSlots(tag[1], tag[2])) = 1

\* a finished conversion with two themes, a category label used under both,
\* and a question that carries a sub-question
C1_Witness ==
    /\ conv_pc = "done" /\ conv_ret = "True"
    /\ Len(result_layers) = 2
    /\ \E c1, c2 \in Categories : c1 # c2 /\ heap[c1].name = heap[c2].name
    /\ \E q \in Questions : Len(heap[q].children) > 0

NoRepeat(names) ==
    \A i, j \in 1..Len(names) : names[i] = names[j] => i = j

ChildNames(p) == [i \in 1..Len(heap[p].children) |->
                    heap[heap[p].children[i]].name]

ChildRows(p) == [i \in 1..Len(heap[p].children) |->
                    heap[heap[p].children[i]].row]

\* C2: theme labels are unique, category labels are unique under each theme,
\* and the nodes merged under a reused theme or category stand in row order.
C2_Dedup ==
    /\ NoRepeat([i \in 1..Len(result_layers) |-> heap[result_layers[i]].name])
    /\ \A t \in Themes :
         /\ NoRepeat(ChildNames(t))
         /\ \A i, j \in 1..Len(heap[t].children) :
                i < j => ChildRows(t)[i] < ChildRows(t)[j]
    /\ \A c \in Categories :
         \A i, j \in 1..Len(heap[c].children) :
                i < j => ChildRows(c)[i] < ChildRows(c)[j]

\* theme A with one category, then theme A again with another category:
\* one theme A, the category of the second row merged under it
C2_Witness ==
    /\ conv_pc = "done" /\ conv_ret = "True"
    /\ Len(result_layers) = 1
    /\ \E t \in Themes :
         /\ Len(heap[t].children) = 2
         /\ heap[t].row < heap[heap[t].children[2]].row
         /\ heap[heap[t].children[1]].row = heap[t].row

\* C3: with fewer than 3 "Layer" header cells the conversion returns False,
\* writes nothing and processes no data row.
C3_TooFewLayersFails ==
    (grid_shape = "header" /\ layer_columns < 3) =>
        /\ json_file = Absent
        /\ row_idx = 0 /\ heap = <<>> /\ result_layers = <<>>
        /\ conv_pc # "rows" /\ conv_pc # "write"
        /\ conv_pc = "done" => conv_ret = "False"

C3_Witness ==
    /\ grid_shape = "header" /\ layer_columns = 2
    /\ conv_pc = "done" /\ conv_ret = "False"

\* C4: without a purpose row, or without a "Layer" row after it, the
\* conversion does not succeed and no document, not even an empty one, is
\* written.
C4_NoMarkerFails ==
    grid_shape \in {"no_purpose", "no_header"} =>
        json_file = Absent /\ conv_ret # "True"

\* ------------------------------------------------- call_openai_api claims
RateLimited(o) == o.kind = "error" /\ IsRateLimit(o.error)
OtherFailure(o) == o.kind = "error" /\ ~IsRateLimit(o.error)

\* C5: with max_retries = 3, on a transport that fails with a rate-limit
\* error 3 times and then succeeds, the call returns the successful content
\* after exactly 3 backoff waits.
C5_ThreeRetriesThenSuccess ==
    ( /\ api_pc = "done" /\ max_retries = DefaultMaxRetries
      /\ \A i \in 1..3 : RateLimited(transport[i])
      /\ transport[4].kind = "ok" )
    => (api_ret = transport[4].content /\ Len(waits) = 3)

\* C6: when the transport fails with an error that is not a rate-limit
\* error, the call makes exactly one transport attempt, does not wait, and
\* returns "API Error: " followed by the error text.
C6_OtherErrorNoRetry ==
    ( /\ api_pc # "loop" /\ max_retries >= 1
      /\ OtherFailure(transport[1]) )
    => /\ api_pc = "done"
       /\ transport_calls = 1
       /\ waits = <<>>
       /\ api_ret = ApiErrorMsg(transport[1].error)

C6_Witness ==
    /\ api_pc = "done" /\ max_retries = DefaultMaxRetries
    /\ \A i \in 1..Len(transport) : OtherFailure(transport[i])
    /\ api_ret = <<"API Error:", "Connection error">>

\* C7: whatever the transport answers, the call never raises and what it
\* returns is a string; after the last rate-limited attempt the error text
\* is the returned string.
C7_AlwaysReturnsString ==
    /\ api_pc # "raised"
    /\ api_pc = "done" =>
         /\ api_ret # NoneContent /\ api_ret # Running
         /\ api_ret \in Seq(STRING)
    /\ ( /\ api_pc # "loop" /\ max_retries >= 1
         /\ \A i \in 1..max_retries : RateLimited(transport[i]) )
       => /\ api_pc = "done"
          /\ api_ret = RateLimitMsg(max_retries, transport[max_retries].error)

C7_Witness ==
    /\ api_pc = "done" /\ max_retries = DefaultMaxRetries
    /\ \A i \in 1..3 : RateLimited(transport[i])
    /\ waits = <<5, 10, 20>>
    /\ api_ret = <<"Rate limit error after", "3", "retries:", "Error code: 429">>


\* ---- claims about run_layer3_research (SpecRun)

\* the main questions of a tree or of a result, in document order
QuestionsOf(layers) ==
    Concat([l \in 1..Len(layers) |->
              Concat([c \in 1..Len(layers[l].categories) |->
                        layers[l].categories[c].questions])])

WithSubQuestions(qs) == {i \in 1..Len(qs) : qs[i].sub_questions # <<>>}

\* the call_openai_api invocations of the run, in order
Calls == SelectSeq(events, LAMBDA e : e.ev = "call")

CallsAt(l, c, q, tag) ==
    {i \in 1..Len(Calls) : Calls[i].at = <<l, c, q>> /\ Calls[i].tag = tag}

FullPerQuestionRun == run_pc = "done" /\ ~PerCategory /\ ~testing_mode
FullPerCategoryRun == run_pc = "done" /\ PerCategory /\ ~testing_mode

\* C8: after a full per-question run the result holds every main question of
\* the tree, each with a layer3_content that is a string, and a
\* layer4_comprehensive_report on exactly the questions with sub-questions.
C8_BaseOnAllDeepOnK ==
    FullPerQuestionRun =>
        LET inq == QuestionsOf(structured_data)
            out == QuestionsOf(run_ret.research_results)
        IN  /\ Len(out) = Len(inq)
            /\ \A i \in 1..Len(out) :
                 /\ out[i].main_question = inq[i].main_question
                 /\ out[i].layer3_content # NoneContent
                 /\ out[i].layer4_comprehensive_report.present
                        <=> (inq[i].sub_questions # <<>>)
            /\ Cardinality({i \in 1..Len(out) :
                               out[i].layer4_comprehensive_report.present})
                  = Cardinality(WithSubQuestions(inq))

\* two questions, one with sub-questions, one of the base calls failed
C8_Witness ==
    /\ FullPerQuestionRun
    /\ LET inq == QuestionsOf(structured_data)
           out == QuestionsOf(run_ret.research_results)
       IN  /\ Len(inq) = 2
           /\ Cardinality(WithSubQuestions(inq)) = 1
           /\ \E i \in 1..Len(out) :
                 /\ out[i].layer3_content # <<>>
                 /\ Head(out[i].layer3_content) = "API Error:"

\* C9: a full per-category run makes one model call per category of the
\* tree, C in all, whatever the number of main questions of a category.
C9_OneCallPerCategory ==
    FullPerCategoryRun =>
        /\ Len(Calls) = CountCats(structured_data)
        /\ \A l \in 1..Len(structured_data) :
             \A c \in 1..Len(structured_data[l].categories) :
                \E i \in 1..Len(Calls) :
                    /\ Calls[i].at[1] = l /\ Calls[i].at[2] = c
                    /\ \A j \in 1..Len(Calls) :
                         (Calls[j].at[1] = l /\ Calls[j].at[2] = c) => j = i

\* a category of two main questions and a category of none: two calls
C9_Witness ==
    /\ FullPerCategoryRun
    /\ Len(Calls) = 2
    /\ \E l \in 1..Len(structured_data) :
         \E c \in 1..Len(structured_data[l].categories) :
            Len(structured_data[l].categories[c].questions) = 0
    /\ \E l \in 1..Len(structured_data) :
         \E c \in 1..Len(structured_data[l].categories) :
            Len(structured_data[l].categories[c].questions) = 2

\* C10 as stated: a full per-question run over N main questions, K of them
\* with sub-questions, makes 2N + K model calls.
C10_TwoCallsPerBase ==
    FullPerQuestionRun =>
        LET inq == QuestionsOf(structured_data)
        IN  Len(Calls) = 2 * Len(inq) + Cardinality(WithSubQuestions(inq))

\* C10 amended: in a full per-question run each main question's
\* layer3_content is the output of one model call, and one more call is made
\* for each question with sub-questions whose layer3_content is not the
\* empty string: N + K calls when no base content is empty.
C10_OneCallPerBase ==
    FullPerQuestionRun =>
        LET out == QuestionsOf(run_ret.research_results)
            deep == {i \in WithSubQuestions(out) :
                        out[i].layer3_content # <<>>}
        IN  /\ Len(Calls) = Len(out) + Cardinality(deep)
            /\ Cardinality({i \in 1..Len(Calls) : Calls[i].tag = "layer3"})
                  = Len(out)
            /\ \A l \in 1..Len(structured_data) :
                 \A c \in 1..Len(structured_data[l].categories) :
                    \A q \in 1..Len(structured_data[l].categories[c]
                                                          .questions) :
                       Cardinality(CallsAt(l, c, q, "layer3")) = 1

\* N = 2, K = 1, both base contents non-empty: three calls, not five
C10_Witness ==
    /\ FullPerQuestionRun
    /\ LET out == QuestionsOf(run_ret.research_results)
       IN  /\ Len(out) = 2
           /\ Cardinality(WithSubQuestions(out)) = 1
           /\ \A i \in 1..Len(out) : out[i].layer3_content # <<>>
           /\ Len(Calls) = 3

\* ---- claims about a sheet whose rows are given (SpecSheet)
ExampleRows ==
    << <<"Auto", "Market", "Why buy EVs?", "Price; Range">>,
       <<"", "", "Why buy EVs? (2)", "">> >>

ExampleConverted ==
    /\ grid = GivenRows(ExampleRows)
    /\ conv_pc = "done" /\ conv_ret = "True"

ExampleShape ==
    /\ Len(json_file.layers) = 1
    /\ json_file.layers[1].name = "Auto"
    /\ Len(json_file.layers[1].categories) = 1
    /\ json_file.layers[1].categories[1].name = "Market"
    /\ LET qs == json_file.layers[1].categories[1].questions
       IN  /\ Len(qs) = 2
           /\ qs[1].main_question = "Why buy EVs?"
           /\ qs[2].main_question = "Why buy EVs? (2)"
           /\ qs[2].sub_questions = <<>>

\* C11 as stated: the example sheet gives 1 theme, 1 category and 2 main
\* questions, the first with 2 sub-questions and the second with none.
C11_ExampleTwoSubQuestions ==
    ExampleConverted =>
        /\ ExampleShape
        /\ Len(json_file.layers[1].categories[1].questions[1]
                                                 .sub_questions) = 2

\* C11 amended: the example sheet gives 1 theme, 1 category and 2 main
\* questions under them; the first has the one sub-question "Price; Range"
\* (the cell is kept whole), the second has none.
C11_ExampleOneSubQuestion ==
    ExampleConverted =>
        /\ ExampleShape
        /\ json_file.layers[1].categories[1].questions[1].sub_questions
              = <<"Price; Range">>

C11_Witness ==
    /\ ExampleConverted
    /\ row_idx = 2
    /\ Len(json_file.layers[1].categories[1].questions) = 2

\* ---- claims about the stored results (SpecStore)
\* C12: when the label path matches no question of the stored result, the
\* call leaves the file as it was and writes nothing, makes no model call,
\* and does not return as a success (a not-found error is reported).
C12_NoMatchLeavesFile ==
    ( /\ store_pc \in {"done", "raised"}
      /\ Matches(file_before.doc, store_op) = {} )
    => /\ results_file = file_before
       /\ store_writes = 0
       /\ store_calls = <<>>
       /\ store_ret # ResultsPath

\* ---- the run under call failures
CallsTagged(tag) == SelectSeq(Calls, LAMBDA e : e.tag = tag)

\* the categories of a result, in document order
CategoriesOf(layers) ==
    Concat([l \in 1..Len(layers) |-> layers[l].categories])

\* what a finished run holds is what its calls returned, unit by unit, and
\* a full run holds every unit of the tree
RunKeptEveryReturn ==
    run_pc = "done" =>
        IF PerCategory
        THEN LET cats == CategoriesOf(run_ret.research_results)
                 made == CallsTagged("category")
             IN  /\ Len(made) = Len(cats)
                 /\ \A i \in 1..Len(cats) :
                       cats[i].layer3_comprehensive_category
                              .comprehensive_content = made[i].value
                 /\ ~testing_mode => Len(cats) = CountCats(structured_data)
        ELSE LET out == QuestionsOf(run_ret.research_results)
                 made == CallsTagged("layer3")
             IN  /\ Len(made) = Len(out)
                 /\ \A i \in 1..Len(out) :
                       /\ out[i].layer3_content = made[i].value
                       /\ \A e \in 1..Len(Calls) :
                             (Calls[e].tag = "layer4"
                                /\ Calls[e].at = made[i].at)
                             => out[i].layer4_comprehensive_report
                                      .comprehensive_content = Calls[e].value
                 /\ ~testing_mode =>
                       Len(out) = TotalQuestions(structured_data)

\* C13: whatever calls fail, the run reaches its end; the result then holds,
\* for every unit, the text its call returned (the error text for a failed
\* call), and a full run holds every unit of the tree.
C13_FailuresDoNotStopRun == [](RunKeptEveryReturn) /\ <>(run_pc = "done")

\* the first of two questions failed, the second was still answered
C13_Witness ==
    /\ FullPerQuestionRun
    /\ LET out == QuestionsOf(run_ret.research_results)
       IN  /\ Len(out) = 2
           /\ IsErrorText(out[1].layer3_content)
           /\ out[1].layer3_content = CallsTagged("layer3")[1].value
           /\ ~IsErrorText(out[2].layer3_content)
           /\ out[2].layer3_content # <<>>

\* ---- the order of the run
\* the main questions of the input tree in pre-order: position and labels
InputQuestionPaths ==
    Concat([l \in 1..Len(structured_data) |->
      Concat([c \in 1..Len(structured_data[l].categories) |->
        [q \in 1..Len(structured_data[l].categories[c].questions) |->
           [at |-> <<l, c, q>>,
            path |-> <<structured_data[l].name,
                       structured_data[l].categories[c].name,
                       structured_data[l].categories[c].questions[q]
                                                       .main_question>>]]])])

InputCategoryPaths ==
    Concat([l \in 1..Len(structured_data) |->
      [c \in 1..Len(structured_data[l].categories) |->
         [at |-> <<l, c>>,
          path |-> <<structured_data[l].name,
                     structured_data[l].categories[c].name>>]]])

ResultQuestionPaths(results) ==
    Concat([l \in 1..Len(results) |->
      Concat([c \in 1..Len(results[l].categories) |->
        [q \in 1..Len(results[l].categories[c].questions) |->
           <<results[l].layer_name,
             results[l].categories[c].category_name,
             results[l].categories[c].questions[q].main_question>>]])])

ResultCategoryPaths(results) ==
    Concat([l \in 1..Len(results) |->
      [c \in 1..Len(results[l].categories) |->
         <<results[l].layer_name, results[l].categories[c].category_name>>]])

LexLeq(a, b) ==
    \/ a[1] < b[1]
    \/ a[1] = b[1] /\ a[2] < b[2]
    \/ a[1] = b[1] /\ a[2] = b[2] /\ a[3] <= b[3]

\* the calls of a per-question run, as the tree and the returned texts
\* determine them: per question in pre-order the base call, then the report
\* call if the question has sub-questions and a non-empty base content
ExpectedQuestionCalls(out) ==
    Concat([i \in 1..Len(out) |->
       <<[tag |-> "layer3", at |-> InputQuestionPaths[i].at]>>
       \o (IF out[i].sub_questions # <<>> /\ out[i].layer3_content # <<>>
           THEN <<[tag |-> "layer4", at |-> InputQuestionPaths[i].at]>>
           ELSE <<>>)])

\* C14: the calls are made in the pre-order of the input tree and the nodes
\* of the result stand in that order; the sequence of calls is a function of
\* the tree and of what the calls returned.
C14_PreOrder ==
    /\ \A i, j \in 1..Len(Calls) : i < j => LexLeq(Calls[i].at, Calls[j].at)
    /\ run_pc = "done" =>
         IF PerCategory
         THEN LET got == ResultCategoryPaths(run_ret.research_results)
              IN  /\ Len(got) <= Len(InputCategoryPaths)
                  /\ \A i \in 1..Len(got) :
                        got[i] = InputCategoryPaths[i].path
                  /\ Len(Calls) = Len(got)
                  /\ \A i \in 1..Len(Calls) :
                        /\ Calls[i].tag = "category"
                        /\ <<Calls[i].at[1], Calls[i].at[2]>>
                              = InputCategoryPaths[i].at
         ELSE LET out == QuestionsOf(run_ret.research_results)
                  got == ResultQuestionPaths(run_ret.research_results)
              IN  /\ Len(got) <= Len(InputQuestionPaths)
                  /\ \A i \in 1..Len(got) :
                        got[i] = InputQuestionPaths[i].path
                  /\ [i \in 1..Len(Calls) |->
                        [tag |-> Calls[i].tag, at |-> Calls[i].at]]
                       = ExpectedQuestionCalls(out)

\* two questions of one category, the first with a report: three calls in
\* tree order
C14_Witness ==
    /\ FullPerQuestionRun
    /\ Len(structured_data) = 1
    /\ Len(structured_data[1].categories) = 1
    /\ Len(structured_data[1].categories[1].questions) = 2
    /\ [i \in 1..Len(Calls) |-> Calls[i].at]
         = << <<1, 1, 1>>, <<1, 1, 1>>, <<1, 1, 2>> >>

\* ---- testing mode (SpecTest)
TestRunDone == run_pc = "done" /\ testing_mode

\* the main questions a per-category run handed to the model
QuestionsAnalyzed(results) ==
    Concat([i \in 1..Len(CategoriesOf(results)) |->
              CategoriesOf(results)[i].layer3_comprehensive_category
                                      .questions_analyzed])

\* the question lists of the categories of the input tree, in pre-order
InputCategoryQuestions ==
    Concat([l \in 1..Len(structured_data) |->
      [c \in 1..Len(structured_data[l].categories) |->
         structured_data[l].categories[c].questions]])

\* the categories a testing-mode per-category run goes through: up to the
\* first with which 5 main questions are covered, all if there is none
CategoriesUntilLimit ==
    LET reached == {m \in 1..Len(InputCategoryQuestions) :
                      SumLens(SubSeq(InputCategoryQuestions, 1, m)) >= 5}
    IN  IF reached = {} THEN Len(InputCategoryQuestions)
        ELSE CHOOSE m \in reached : \A k \in reached : m <= k

\* C15 as stated: a testing-mode run processes at most 5 main questions in
\* per-question mode and at most 5 categories in per-category mode.
C15_AtMostFiveUnits ==
    TestRunDone =>
        IF PerCategory
        THEN /\ Len(CallsTagged("category")) <= 5
             /\ Len(CategoriesOf(run_ret.research_results)) <= 5
        ELSE Len(QuestionsOf(run_ret.research_results)) <= 5

\* C15 amended: in both modes the limit of a testing-mode run is 5 main
\* questions, the first in pre-order.  A per-question run processes
\* min(5, N) main questions.  A per-category run hands min(5, N) main
\* questions to the model and goes through the categories up to the one with
\* which the fifth is covered, however many categories that takes.
C15_AtMostFiveQuestions ==
    TestRunDone =>
        LET n == Min(5, TotalQuestions(structured_data))
        IN  IF PerCategory
            THEN LET analysed == QuestionsAnalyzed(run_ret.research_results)
                 IN  /\ Len(analysed) = n
                     /\ \A i \in 1..n :
                           analysed[i] = InputQuestionPaths[i].path[3]
                     /\ Len(CallsTagged("category")) = CategoriesUntilLimit
                     /\ Len(CategoriesOf(run_ret.research_results))
                           = CategoriesUntilLimit
            ELSE LET got == ResultQuestionPaths(run_ret.research_results)
                 IN  /\ Len(got) = n
                     /\ \A i \in 1..n : got[i] = InputQuestionPaths[i].path
                     /\ Len(CallsTagged("layer3")) = n

\* six main questions in six categories: a per-question run stops after
\* the fifth
C15_Witness ==
    /\ TestRunDone /\ ~PerCategory
    /\ TotalQuestions(structured_data) = 6
    /\ Len(QuestionsOf(run_ret.research_results)) = 5

\* ---- the mode of a result
\* every category carries layer3_comprehensive_category, no question has a
\* layer3_content or a layer4_comprehensive_report
CategoryModeResult(results) ==
    /\ \A i \in 1..Len(CategoriesOf(results)) :
          CategoriesOf(results)[i].layer3_comprehensive_category.present
    /\ \A i \in 1..Len(QuestionsOf(results)) :
          /\ QuestionsOf(results)[i].layer3_content = NoneContent
          /\ ~QuestionsOf(results)[i].layer4_comprehensive_report.present

\* no category carries layer3_comprehensive_category, every question has a
\* layer3_content
QuestionModeResult(results) ==
    /\ \A i \in 1..Len(CategoriesOf(results)) :
          ~CategoriesOf(results)[i].layer3_comprehensive_category.present
    /\ \A i \in 1..Len(QuestionsOf(results)) :
          QuestionsOf(results)[i].layer3_content # NoneContent

\* C16: a returned result is of the per-category form when the run was
\* asked for "Layer 3 Analysis" and of the per-question form otherwise; a
\* result that holds a category is never of both forms.
C16_OneModePerResult ==
    run_pc = "done" =>
        /\ analysis_level = "Layer 3 Analysis"
              => CategoryModeResult(run_ret.research_results)
        /\ analysis_level # "Layer 3 Analysis"
              => QuestionModeResult(run_ret.research_results)
        /\ CategoriesOf(run_ret.research_results) # <<>>
              => ~( /\ CategoryModeResult(run_ret.research_results)
                    /\ QuestionModeResult(run_ret.research_results) )

\* a per-category result with two questions under an analysed category
C16_Witness ==
    /\ run_pc = "done" /\ analysis_level = "Layer 3 Analysis"
    /\ Len(QuestionsOf(run_ret.research_results)) = 2
    /\ CategoryModeResult(run_ret.research_results)
    /\ ~QuestionModeResult(run_ret.research_results)

\* ---- the pause between calls
\* C17: between any two model calls of a run the runner has slept for at
\* least delay_seconds.
C17_DelayBetweenCalls ==
    \A i, j \in 1..Len(events) :
        (i < j /\ events[i].ev = "call" /\ events[j].ev = "call")
        => \E k \in (i + 1)..(j - 1) :
              events[k].ev = "sleep" /\ events[k].secs >= DelaySeconds

\* ---- the tally of a run on a used client (SpecAgain)
\* the counted occurrences, in the texts this run's calls returned, of the
\* names that are tallied under key
OccurrencesInRun(key) ==
    Cardinality({<<c, i>> \in (1..Len(Calls)) \X (1..3) :
        /\ i <= Len(Calls[c].value)
        /\ \E p \in 1..Len(ReferencePatterns) :
              Calls[c].value[i] \in ReferencePatterns[p]
        /\ SourceLen(Calls[c].value[i]) > MinSourceLen
        /\ NormalizeSourceName(Calls[c].value[i]) = key})

TalliedKeys ==
    {"World Bank", "world bank", "General Statistics Office (GSO)"}

\* C18: the tracked_references of a run on a client that has run before
\* count only what the responses of this run contain.
C18_TallyResetPerRun ==
    run_pc = "done" =>
        /\ \A i \in 1..Len(run_ret.tracked_references) :
              run_ret.tracked_references[i].count
                = OccurrencesInRun(run_ret.tracked_references[i].source)
        /\ \A key \in TalliedKeys :
              OccurrencesInRun(key) > 0
              => \E i \in 1..Len(run_ret.tracked_references) :
                    run_ret.tracked_references[i].source = key

\* the earlier run left two or more counts; this run saw one source once
C18_Witness ==
    /\ run_pc = "done"
    /\ Len(Calls) >= 2
    /\ run_ret.tracked_references
         = <<[source |-> "World Bank", count |-> 1]>>

\* ---- the ranked list (SpecRank)
\* the place of a listed entry in the tally, that is, when it was first
\* counted
TallyPlace(entry) ==
    CHOOSE k \in 1..Len(reference_tracker) : reference_tracker[k] = entry

\* C19: tracked_references has at most 10 entries, counts never increase
\* along it, no source left out has a higher count than a listed one, and
\* sources of equal count are listed in the order they were first counted.
C19_TopTenRanked ==
    run_pc = "done" =>
        LET out == run_ret.tracked_references
            listed == {out[i] : i \in 1..Len(out)}
            tally == {reference_tracker[k] : k \in 1..Len(reference_tracker)}
        IN  /\ Len(out) <= 10
            /\ listed \subseteq tally
            /\ Cardinality(listed) = Len(out)
            /\ \A i, j \in 1..Len(out) :
                  i < j => out[i].count >= out[j].count
            /\ \A left \in tally \ listed : \A e \in listed :
                  e.count >= left.count
            /\ \A i, j \in 1..Len(out) :
                  (i < j /\ out[i].count = out[j].count)
                  => TallyPlace(out[i]) < TallyPlace(out[j])

\* eleven sources, the last counted twice and the first once: one source is
\* left out, the last-seen source is listed first, and two listed sources tie
C19_Witness ==
    /\ run_pc = "done"
    /\ Len(reference_tracker) = 11
    /\ reference_tracker[11].count = 2
    /\ reference_tracker[1].count = 1
    /\ reference_tracker[2].count = 1
    /\ Len(run_ret.tracked_references) = 10
    /\ run_ret.tracked_references[1].source = "Bloomberg"

\* ---- what one call adds to the tally (SpecApi)
\* the call returned the text the model answered with
ReturnedAnswer == api_pc = "done" /\ api_ret \in OkContents

\* the occurrences in the returned text of the names tallied under key
OccurrencesReturned(key) ==
    Cardinality({i \in 1..Len(api_ret) :
        /\ \E p \in 1..Len(ReferencePatterns) :
              api_ret[i] \in ReferencePatterns[p]
        /\ NormalizeSourceName(api_ret[i]) = key})

\* the count the tally holds under key, 0 when the key is not in it
Tallied(key) ==
    IF \E i \in 1..Len(reference_tracker) : reference_tracker[i].source = key
    THEN (CHOOSE e \in {reference_tracker[i] :
                           i \in 1..Len(reference_tracker)} :
             e.source = key).count
    ELSE 0

\* C20: after a successful call the tally holds, under each canonical key,
\* one count for every occurrence in the response of a name of that key, the
\* short name "GSO" and the Vietnamese name of the office under the same
\* key; a call that failed leaves the tally as it was.
C20_EveryAliasCounted ==
    /\ ReturnedAnswer =>
          \A key \in TalliedKeys : Tallied(key) = OccurrencesReturned(key)
    /\ (api_pc \in {"done", "raised"} /\ ~ReturnedAnswer) =>
          reference_tracker = <<>>

\* ---- what an update changes in the file (SpecStore)
\* the places of the question nodes of a document
QuestionPlaces(doc) ==
    {<<l, c, q>> \in (1..Len(doc)) \X (1..CountCats(doc))
                                   \X (1..TotalQuestions(doc)) :
        /\ c <= Len(doc[l].categories)
        /\ q <= Len(doc[l].categories[c].questions)}

QuestionAt(doc, p) == doc[p[1]].categories[p[2]].questions[p[3]]

\* the question nodes whose theme, category and question labels equal the
\* path of the operation
Labelled(doc, op) ==
    {p \in QuestionPlaces(doc) :
        /\ doc[p[1]].layer_name = op.layer_name
        /\ doc[p[1]].categories[p[2]].category_name = op.category_name
        /\ QuestionAt(doc, p).main_question = op.main_question}

PlaceLeq(p, r) ==
    \/ p[1] < r[1]
    \/ p[1] = r[1] /\ p[2] < r[2]
    \/ p[1] = r[1] /\ p[2] = r[2] /\ p[3] <= r[3]

FirstPlace(places) == CHOOSE p \in places : \A r \in places : PlaceLeq(p, r)

\* the two documents have the same themes, categories and question slots
SameSkeleton(a, b) ==
    /\ Len(a) = Len(b)
    /\ \A l \in 1..Len(a) :
          /\ a[l].layer_name = b[l].layer_name
          /\ Len(a[l].categories) = Len(b[l].categories)
          /\ \A c \in 1..Len(a[l].categories) :
                /\ a[l].categories[c].category_name
                     = b[l].categories[c].category_name
                /\ Len(a[l].categories[c].questions)
                     = Len(b[l].categories[c].questions)

\* C21: when the path of add_layer4_enhancement or
\* add_layer4_comprehensive_enhancement matches and the file is written, the
\* written document differs from the one read in exactly one question node,
\* the first in traversal order whose labels equal the path; every other
\* node, later questions of the same label included, and the metadata are
\* written back as they were.
C21_OnlyFirstMatchMutated ==
    (store_pc = "done" /\ Labelled(file_before.doc, store_op) # {}) =>
        /\ SameSkeleton(file_before.doc, results_file.doc)
        /\ results_file.metadata = file_before.metadata
        /\ {p \in QuestionPlaces(file_before.doc) :
               QuestionAt(results_file.doc, p) # QuestionAt(file_before.doc, p)}
             = {FirstPlace(Labelled(file_before.doc, store_op))}

\* the category holds the question of the path twice, after another one, and
\* the file carried metadata
C21_Witness ==
    /\ store_pc = "done"
    /\ Cardinality(Labelled(file_before.doc, store_op)) = 2
    /\ FirstPlace(Labelled(file_before.doc, store_op)) = <<1, 2, 2>>
    /\ file_before.metadata # <<>>
    /\ QuestionAt(results_file.doc, <<1, 2, 2>>)
         # QuestionAt(file_before.doc, <<1, 2, 2>>)

\* the document read is the saved result of a per-question run of
\* run_layer3_research: no question carries the 'layer4_enhancements' key
FromPerQuestionRun(doc) ==
    \A p \in QuestionPlaces(doc) :
        ~QuestionAt(doc, p).layer4_enhancements.present

\* C22: on the saved result of a per-question run, add_layer4_enhancement
\* on an existing path does not fail; it ends with an entry for the
\* sub-question under the question's layer4_enhancements and the file
\* written once.
C22_EnhancementAttaches ==
    ( /\ store_op.fn = "add_layer4_enhancement"
      /\ FromPerQuestionRun(file_before.doc)
      /\ Labelled(file_before.doc, store_op) # {} )
    => /\ store_pc # "raised"
       /\ store_pc = "done" =>
             /\ store_writes = 1
             /\ \E i \in 1..Len(QuestionAt(results_file.doc,
                        FirstPlace(Labelled(file_before.doc, store_op)))
                            .layer4_enhancements.entries) :
                   QuestionAt(results_file.doc,
                        FirstPlace(Labelled(file_before.doc, store_op)))
                       .layer4_enhancements.entries[i].sub_question
                     = store_op.sub_question

\* ---- the pointers row by row (SpecWide)
\* the values of the data row applied last
LastRow == LayerValues(grid.rows[row_idx])

RowApplied == grid.known /\ row_idx >= 1

\* the theme a category, a main question hangs under
ThemeOfCategory(c) ==
    CHOOSE t \in Themes : \E i \in 1..Len(heap[t].children) :
        heap[t].children[i] = c

CategoryOfQuestion(q) ==
    CHOOSE c \in Categories : \E i \in 1..Len(heap[c].children) :
        heap[c].children[i] = q

ThemeOfQuestion(q) == ThemeOfCategory(CategoryOfQuestion(q))

\* the main questions the row made, and those that took a value of the row
\* as a sub-question
QuestionsMadeBy(row) == {q \in Questions : heap[q].row = row}

QuestionsFedBy(row) ==
    {q \in Questions : \E i \in 1..Len(heap[q].children) :
        heap[q].children[i].row = row}

\* C23: after a data row with a value at level 0 and none at level 1, the
\* category, question and deeper pointers are none, and nothing that row
\* supplied hangs under a theme other than the one the row names.
C23_NewThemeResetsPointers ==
    (RowApplied /\ LastRow[1] # NoValue /\ LastRow[2] = NoValue) =>
        /\ \A i \in 2..Len(layer_stack) : layer_stack[i] = None
        /\ \A q \in QuestionsMadeBy(row_idx) \cup QuestionsFedBy(row_idx) :
              heap[ThemeOfQuestion(q)].name = LastRow[1]

\* a data row is applied in this step
RowStep == grid.known /\ conv_pc = "rows" /\ row_idx' = row_idx + 1

\* the values of the data row this step applies
StepRow == LayerValues(grid.rows[row_idx + 1])

\* the sub-question entry the row leaves for its level-3 cell
Level3Entry == [text |-> StepRow[4], row |-> row_idx + 1, level |-> 3]

\* the row has values at levels 0 and 3 and none at levels 1 and 2
SkipsToLevel3 ==
    /\ StepRow[1] # NoValue /\ StepRow[2] = NoValue
    /\ StepRow[3] = NoValue /\ StepRow[4] # NoValue

\* C24: a data row with values at levels 0 and 3 and none at levels 1 and 2
\* has its level-3 value appended to the sub-questions of the main question
\* that is the level-2 pointer when the row is read, whichever theme that
\* question hangs under; when the pointer is none the value is stored
\* nowhere.
C24_SkippedLevelsUseCurrentQuestion ==
    [][ (RowStep /\ SkipsToLevel3) =>
          IF layer_stack[3] # None
          THEN /\ Len(heap'[layer_stack[3]].children)
                    > Len(heap[layer_stack[3]].children)
               /\ SubSeq(heap'[layer_stack[3]].children, 1,
                         Len(heap[layer_stack[3]].children) + 1)
                    = Append(heap[layer_stack[3]].children, Level3Entry)
               /\ \A q \in 1..Len(heap') :
                     (heap'[q].kind = "question" /\ q # layer_stack[3])
                     => \A i \in 1..Len(heap'[q].children) :
                           heap'[q].children[i].row # row_idx + 1
          ELSE \A q \in 1..Len(heap') :
                  heap'[q].kind = "question"
                  => \A i \in 1..Len(heap'[q].children) :
                        heap'[q].children[i].row # row_idx + 1
      ]_vars

\* the second row names another theme and has only a level-3 value besides;
\* the value is a sub-question of the main question the first row made
\* under the first theme
C24_Witness ==
    /\ RowApplied /\ row_idx = 2
    /\ LastRow[1] = "Food" /\ LastRow[2] = NoValue
    /\ LastRow[3] = NoValue /\ LastRow[4] # NoValue
    /\ \E q \in QuestionsFedBy(2) :
          /\ heap[q].row = 1
          /\ heap[ThemeOfQuestion(q)].name = "Auto"
          /\ layer_stack[3] = q

\* ---- where the values of a row are attached (SpecWide)
\* the child nodes of a theme or a category
ChildSet(p) == {heap[p].children[i] : i \in 1..Len(heap[p].children)}

CategoriesMadeBy(row) == {c \in Categories : heap[c].row = row}

\* every place a value read at (row, level >= 3) is stored lies under
\* main question p, and there is one
SubUnder(p, level) ==
    /\ SubSlots(row_idx, level) # {}
    /\ \A s \in SubSlots(row_idx, level) :
          s[1] = p /\ heap[p].children[s[2]].text = LastRow[level + 1]

\* the value of the last row at level (1 or deeper) hangs under node p and
\* nowhere else
AttachedUnder(p, level) ==
    CASE level = 1 ->
            /\ \E c \in ChildSet(p) :
                  heap[c].kind = "category" /\ heap[c].name = LastRow[2]
            /\ CategoriesMadeBy(row_idx) \subseteq ChildSet(p)
      [] level = 2 ->
            /\ \E q \in ChildSet(p) :
                  /\ heap[q].kind = "question" /\ heap[q].row = row_idx
                  /\ heap[q].name = LastRow[3]
            /\ QuestionsMadeBy(row_idx) \subseteq ChildSet(p)
      [] OTHER -> SubUnder(p, level)

\* the value of the last row at level made no node and no entry
Dropped(level) ==
    CASE level = 1 -> CategoriesMadeBy(row_idx) = {}
      [] level = 2 -> QuestionsMadeBy(row_idx) = {}
      [] OTHER -> SubSlots(row_idx, level) = {}

\* the levels 1 and deeper at which the last row has a value
ValueLevels ==
    {l \in 1..(Len(LastRow) - 1) : LastRow[l + 1] # NoValue}

\* C25 as stated: a value at level L >= 1 is attached only under the node
\* the level L-1 pointer holds, and is dropped when that pointer is none.
C25_AttachedToLevelAbove ==
    RowApplied =>
        \A level \in ValueLevels :
            IF layer_stack[level] # None
            THEN AttachedUnder(layer_stack[level], level)
            ELSE Dropped(level)

\* the pointer a value of a level is attached under: the level above for
\* levels 1 and 2, the main question (level 2) for every level from 3 on
AttachPointer(level) == IF level <= 2 THEN level ELSE 3

\* C25 amended: a value at level 1 or 2 is attached only under the node the
\* pointer of the level above holds, a value at level 3 or deeper only under
\* the main question the level-2 pointer holds; when that pointer is none
\* the value is dropped and makes no node.
C25_AttachedToPointer ==
    RowApplied =>
        \A level \in ValueLevels :
            IF layer_stack[AttachPointer(level)] # None
            THEN AttachedUnder(layer_stack[AttachPointer(level)], level)
            ELSE Dropped(level)

\* a row with a value in the fifth layer column (level 4), stored under the
\* main question, and a row whose category value was dropped for want of a
\* theme
C25_Witness ==
    /\ RowApplied /\ row_idx = 2
    /\ LastRow[5] # NoValue /\ LastRow[4] = NoValue
    /\ SubSlots(2, 4) # {}
    /\ layer_stack[4] = None
    /\ LayerValues(grid.rows[1])[1] = NoValue
    /\ LayerValues(grid.rows[1])[2] # NoValue
    /\ CategoriesMadeBy(1) = {}

\* the levels 3 and deeper at which the last row has a value
DeepLevels == {l \in ValueLevels : l >= 3}

\* C26: with more than 4 layer columns, while there is a current main
\* question, the values a row has at level 3 and deeper are the last
\* sub-questions of that question, one each and in column order; a
\* sub-question is a plain string at every depth.
C26_DeepLevelsFlattened ==
    /\ (RowApplied /\ layer_columns > 4 /\ layer_stack[3] # None) =>
          LET kids == heap[layer_stack[3]].children
              n == Cardinality(DeepLevels)
          IN  /\ n <= Len(kids)
              /\ \A l \in DeepLevels :
                    kids[Len(kids) - n + Cardinality({m \in DeepLevels : m <= l})]
                      = [text |-> LastRow[l + 1], row |-> row_idx, level |-> l]
    /\ \A q \in Questions : \A i \in 1..Len(heap[q].children) :
          heap[q].children[i].text \in STRING
    /\ \A l \in 1..Len(json_file.layers) :
          \A c \in 1..Len(json_file.layers[l].categories) :
            \A q \in 1..Len(json_file.layers[l].categories[c].questions) :
              \A s \in 1..Len(json_file.layers[l].categories[c].questions[q]
                                                            .sub_questions) :
                json_file.layers[l].categories[c].questions[q].sub_questions[s]
                  \in STRING

\* a written sheet whose second row has values in the fourth and fifth layer
\* columns, both kept as sub-questions of the main question of the first row
C26_Witness ==
    /\ RowApplied /\ row_idx = 2 /\ conv_pc = "done" /\ conv_ret = "True"
    /\ DeepLevels = {3, 4}
    /\ LastRow[3] = NoValue
    /\ layer_stack[3] # None
    /\ json_file.layers[1].categories[1].questions[1].sub_questions
         = <<"Price", "Price", "Range">>

\* ---- the shape of the result (SpecRun)
\* the labels of a tree: themes, their categories, their main questions
InputSkeleton ==
    [l \in 1..Len(structured_data) |->
       [theme |-> structured_data[l].name,
        categories |->
          [c \in 1..Len(structured_data[l].categories) |->
             [category |-> structured_data[l].categories[c].name,
              questions |->
                [q \in 1..Len(structured_data[l].categories[c].questions) |->
                   structured_data[l].categories[c].questions[q]
                                                   .main_question]]]]]

ResultSkeleton(results) ==
    [l \in 1..Len(results) |->
       [theme |-> results[l].layer_name,
        categories |->
          [c \in 1..Len(results[l].categories) |->
             [category |-> results[l].categories[c].category_name,
              questions |->
                [q \in 1..Len(results[l].categories[c].questions) |->
                   results[l].categories[c].questions[q].main_question]]]]]

\* a skeleton without its categories of no question and without the themes
\* that are then left with no category
Pruned(skeleton) ==
    SelectSeq([l \in 1..Len(skeleton) |->
                 [skeleton[l] EXCEPT !.categories =
                     SelectSeq(@, LAMBDA c : c.questions # <<>>)]],
              LAMBDA t : t.categories # <<>>)

FullRunDone == run_pc = "done" /\ ~testing_mode

\* C27 as stated: the result of a full run has the themes, categories and
\* main questions of the input, in its order, empty themes and empty
\* categories included.
C27_ResultIsomorphic ==
    FullRunDone =>
        ResultSkeleton(run_ret.research_results) = InputSkeleton

\* C27 amended: the result of a full per-category run has the themes,
\* categories and main questions of the input in its order, empty ones
\* included; the result of a full per-question run has those of the input
\* without the categories of no main question and without the themes left
\* with no category.
C27_ResultIsomorphicUpToEmpty ==
    FullRunDone =>
        ResultSkeleton(run_ret.research_results)
          = IF PerCategory THEN InputSkeleton ELSE Pruned(InputSkeleton)

\* a full per-question run over a theme without categories followed by a
\* theme with an empty category and one with a question
C27_Witness ==
    /\ FullRunDone /\ ~PerCategory
    /\ Len(structured_data) = 2
    /\ structured_data[1].categories = <<>>
    /\ Len(structured_data[2].categories) = 2
    /\ structured_data[2].categories[1].questions = <<>>
    /\ Len(run_ret.research_results) = 1
    /\ Len(run_ret.research_results[1].categories) = 1

\* ---- the retry loop (SpecApiFair)
\* the attempts made so far that ended in a rate-limit failure
RateLimitedAttempts ==
    {i \in 1..transport_calls : RateLimited(transport[i])}

RetryLoopBounded ==
    /\ transport_calls <= max_retries
    /\ \A i \in 1..(transport_calls - 1) : RateLimited(transport[i])
    /\ Len(waits) = Cardinality(RateLimitedAttempts)
    /\ \A k \in 0..(Len(waits) - 1) : waits[k + 1] = 5 * (2 ^ k)

DeepCallsFor(place) ==
    SelectSeq(Calls, LAMBDA e : e.tag \in {"layer4", "pass"} /\ e.at = place)

\* C30: when the workflow is through, exactly one deep-enrichment call has
\* been made for each main question that has sub-questions, and what it
\* returned is the deep content stored on that question in the file.
C30_OneDeepCallPerQuestion ==
    flow_pc = "done" =>
        \A place \in QuestionPlaces(results_file.doc) :
            QuestionAt(results_file.doc, place).sub_questions # <<>> =>
                /\ Len(DeepCallsFor(place)) = 1
                /\ QuestionAt(results_file.doc, place)
                      .layer4_comprehensive_report.comprehensive_content
                     = DeepCallsFor(place)[1].value

=============================================================================
